---- MODULE Spec2Model ----
(***************************************************************************)
(* viberunner: the HR check script (the verifier of the enforcement       *)
(* protocol).  Two versions of the script are generated by the            *)
(* repository:                                                             *)
(*   "bootstrap"  packages/repo-bootstrap/src/index.ts                     *)
(*                generateHrCheckScript                                    *)
(*   "gateRepos"  services/api/src/routes/gate-repos.ts                    *)
(*                generateBootstrapFiles (hrCheckScript)                   *)
(* A run of the script is modelled step by step; `set -e` makes every     *)
(* failing simple command end the run with that command's exit status.    *)
(***************************************************************************)
EXTENDS Integers, Sequences, FiniteSets, TLC

\* ------------------------------------------------------------------ bounds
\* clock values and expiry times range over 0..MaxTime / 1..MaxTime
MaxTime == 2

\* ------------------------------------------------------- JSON and strings
\* A JSON value: its type tag and its text as `jq -r` prints it.
JNull == [t |-> "null", s |-> "null"]
JStr(x) == [t |-> "str", s |-> x]
JNum(n) == [t |-> "num", s |-> ToString(n)]
JBool(b) == [t |-> "bool", s |-> IF b THEN "true" ELSE "false"]

\* jq -r '.field': raw output, the type tag is lost (null prints as "null").
JqR(j) == j.s

\* Bash arithmetic evaluation of a string in [[ a -le b ]]: a decimal
\* numeral is its value, an identifier (such as null) is an unset variable: 0.
BashArith(str) ==
  IF \E n \in 0..(MaxTime + 1) : ToString(n) = str
  THEN CHOOSE n \in 0..(MaxTime + 1) : ToString(n) = str
  ELSE 0

\* ----------------------------------------------------------------- domain
Users == {"alice", "bob"}
Keys == {"K1", "K2"}
FieldNames == {"v", "user_key", "hr_ok", "bpm", "threshold_bpm", "exp_unix", "nonce"}
SUPPORTED_VERSION == 1

\* The fields of a payload: a function from the seven field names to JSON
\* values (a field that is absent from the JSON object reads as null).
BaseFields ==
  { [f \in FieldNames |->
       CASE f = "v" -> JNum(SUPPORTED_VERSION)
         [] f = "user_key" -> JStr(u)
         [] f = "hr_ok" -> JBool(h)
         [] f = "bpm" -> JNum(120)
         [] f = "threshold_bpm" -> JNum(100)
         [] f = "exp_unix" -> JNum(e)
         [] f = "nonce" -> JStr("n1") ]
    : u \in Users, h \in BOOLEAN, e \in 0..MaxTime }

\* Other values a field can carry on the wire.  exp_unix is whole seconds
\* (the issuer adds a parseInt'ed TTL to the clock) or absent.
FieldValues(f) ==
  CASE f = "v" -> {JNum(1), JNum(2), JNull}
    [] f = "user_key" -> {JStr(u) : u \in Users} \cup {JNull}
    [] f = "hr_ok" -> {JBool(TRUE), JBool(FALSE), JNull}
    [] f = "bpm" -> {JNum(120), JNum(90), JNull}
    [] f = "threshold_bpm" -> {JNum(100), JNum(150), JNull}
    [] f = "exp_unix" -> {JNum(e) : e \in 0..MaxTime} \cup {JNull}
    [] f = "nonce" -> {JStr("n1"), JStr("n2"), JNull}

\* All field assignments that differ from a base in at most one field.
OneFieldChanged(base) ==
  {base} \cup UNION { { [base EXCEPT ![f] = x] : x \in FieldValues(f) } : f \in FieldNames }

\* A message as it is signed: the sorted, whitespace-free JSON object of the
\* fields, plus the names of any further keys the object has.
Msg(fields, extra) == [fields |-> fields, extra |-> extra]

\* jq -cS '{bpm,exp_unix,hr_ok,nonce,threshold_bpm,user_key,v}': exactly the
\* seven named keys of the payload, sorted; every other key is dropped.
Canonical(p) == Msg(p.fields, {})

NoFields == [f \in FieldNames |-> JNull]
NoMsg == Msg(NoFields, {"unset"})

\* A signature value.  kind "sig": an Ed25519 signature made with the private
\* key of `key` over `msg`; "garbage": hex that is no such signature;
\* "null": the JSON field is absent.
SigOf(key, msg) == [kind |-> "sig", key |-> key, msg |-> msg]
GarbageSig == [kind |-> "garbage", key |-> "none", msg |-> NoMsg]
NullSig == [kind |-> "null", key |-> "none", msg |-> NoMsg]

\* (variant of OpensslVerify that accepts any message signed by the key)
OpensslVerify_AnyMessage(pub, sig, msg) ==
  /\ pub \in Keys
  /\ sig.kind = "sig"
  /\ sig.key = pub

\* openssl pkeyutl -verify -pubin -inkey PEM -sigfile SIG -in MSG -rawin
OpensslVerify(pub, sig, msg) ==
  /\ pub \in Keys
  /\ sig.kind = "sig"
  /\ sig.key = pub
  /\ sig.msg = msg

\* ----------------------------------------------------- what a run can read
\* Tokens the transport can hold: a well-formed base, at most one field
\* changed, and a signature made over the base (the change happened after
\* signing), over the fields as they are on the wire, or over the wire fields
\* together with a session identifier; or no usable signature at all.
TokensOf(base, wire) ==
  {[kind |-> "object", fields |-> wire, extra |-> {}, sig |-> s] :
      s \in {SigOf(k, Msg(base, {})) : k \in Keys}
            \cup {SigOf(k, Msg(wire, {})) : k \in Keys}
            \cup {GarbageSig, NullSig}}
  \cup
  {[kind |-> "object", fields |-> wire, extra |-> {"session_id"}, sig |-> s] :
      s \in {SigOf(k, Msg(wire, {})) : k \in Keys}
            \cup {SigOf(k, Msg(wire, {"session_id"})) : k \in Keys}}

Tokens == UNION { UNION { TokensOf(base, wire) : wire \in OneFieldChanged(base) }
                  : base \in BaseFields }

\* What `git show <ref>:hr-signal.json` can yield besides a JSON object: the
\* command fails (no such file in the ref), an empty file, text that is not
\* JSON, JSON that is not an object.
BlobOf(kind) == [kind |-> kind, fields |-> NoFields, extra |-> {}, sig |-> NullSig]
NoPayload == BlobOf("unset")
Payloads == Tokens \cup {BlobOf(k) : k \in {"nofile", "empty", "unparseable", "nonobject"}}

\* viberunner.config.json as the script finds it.
CfgOf(kind, u, k) == [kind |-> kind, user_key |-> u, public_key |-> k]
NoCfg == CfgOf("unset", JNull, JNull)
Configs ==
  {CfgOf(k, JNull, JNull) : k \in {"missing", "unparseable", "nonobject"}}
  \cup {CfgOf("object", u, k) :
          u \in {JStr(x) : x \in Users} \cup {JNull, JStr("")},
          k \in {JStr(x) : x \in Keys} \cup {JNull, JStr("")}}

Tools == {"jq", "openssl", "xxd"}
Variants == {"bootstrap", "gateRepos"}

\* ------------------------------------------------------------ exit status
EXIT_ALLOW == 0
EXIT_BLOCK == 2
JQ_PARSE_ERROR == 2
JQ_RUNTIME_ERROR == 5
MKTEMP_FAILED == 1
COMMAND_NOT_FOUND == 127
GIT_FAILED == 128
RUNNING == 0 - 1

\* ---------------------------------------------------- messages on stderr
NoReason == "none"
R_JQ == "jq not installed"
R_OPENSSL == "openssl not installed"
R_XXD == "xxd not installed"
R_CONFIG == "config not found"
R_USER_KEY_CFG == "invalid user_key in config"
R_PUBLIC_KEY_CFG == "invalid public_key in config"
R_FETCH == "HR signal not found"
R_PAYLOAD == "HR payload missing"
R_MALFORMED == "malformed payload"
R_MISMATCH == "user_key mismatch"
R_EXPIRED == "HR signal expired"
R_SIGNATURE == "invalid signature"
R_BELOW == "HR below threshold"

\* ------------------------------------------------------------------ state
VARIABLES
  variant,      \* which generated script runs
  now,          \* the clock: date +%s
  pc,           \* position of the run in the script
  cfg,          \* viberunner.config.json as read
  USER_KEY,     \* shell variable
  PUBLIC_KEY,   \* shell variable
  payload,      \* content of hr-signal.json in the fetched ref
  sh,           \* V, PAYLOAD_USER_KEY, HR_OK, BPM, THRESHOLD_BPM, EXP_UNIX, NONCE
  SIG,          \* shell variable: the hex signature
  CANONICAL,    \* shell variable: the message to verify
  exitCode,     \* exit status of the run
  reason        \* the viberunner message written to stderr

vvars == <<variant, now, pc, cfg, USER_KEY, PUBLIC_KEY, payload, sh, SIG,
           CANONICAL, exitCode, reason>>

NoSh == [f \in FieldNames |-> ""]

VInit ==
  /\ variant \in Variants
  /\ now \in 1..MaxTime
  /\ pc = IF variant = "bootstrap" THEN "tools" ELSE "config"
  /\ cfg = NoCfg
  /\ USER_KEY = ""
  /\ PUBLIC_KEY = ""
  /\ payload = NoPayload
  /\ sh = NoSh
  /\ SIG = NullSig
  /\ CANONICAL = NoMsg
  /\ exitCode = RUNNING
  /\ reason = NoReason

\* exit 2 after echo "viberunner: <msg> - tools locked" >&2
Block(msg) ==
  /\ pc' = "done"
  /\ exitCode' = EXIT_BLOCK
  /\ reason' = msg

\* set -e: a failing simple command ends the run with its status, and the
\* script writes no message of its own.
Abort(status) ==
  /\ pc' = "done"
  /\ exitCode' = status
  /\ reason' = NoReason

Goto(step) ==
  /\ pc' = step
  /\ UNCHANGED <<exitCode, reason>>

\* ------------------------------------------------------ checks of the script
\* [[ -z "$X" || "$X" == "null" ]]
InvalidConfigValue(x) == x = "" \/ x = "null"

\* (variant of IsMalformed that leaves SIG out of the test)
IsMalformed_WithoutSig(vars, sig) ==
  \E f \in FieldNames : vars[f] = "null"

\* [[ "$V" == "null" || ... || "$SIG" == "null" ]]
IsMalformed(vars, sig) ==
  \/ \E f \in FieldNames : vars[f] = "null"
  \/ sig.kind = "null"

\* (variant of UserKeyMismatch that accepts every subject)
UserKeyMismatch_Never(payloadUserKey, userKey) == FALSE

\* [[ "$PAYLOAD_USER_KEY" != "$USER_KEY" ]]
UserKeyMismatch(payloadUserKey, userKey) == payloadUserKey # userKey

\* (variant of IsExpired with -lt in place of -le)
IsExpired_Strict(expUnix, nowStr) == BashArith(expUnix) < BashArith(nowStr)

\* [[ "$EXP_UNIX" -le "$NOW" ]]
IsExpired(expUnix, nowStr) == BashArith(expUnix) <= BashArith(nowStr)

\* [[ "$HR_OK" != "true" ]]
HrNotOk(hrOk) == hrOk # "true"

\* echo -n "$SIG" | xxd -r -p : text that is no hex signature gives bytes
\* that are no signature
SigBin(sig) == IF sig.kind = "sig" THEN sig ELSE GarbageSig

\* ------------------------------------------------------------------ steps
\* command -v jq / openssl / xxd  (bootstrap script only)
CheckTools ==
  /\ pc = "tools"
  /\ \E missing \in SUBSET Tools :
       IF "jq" \in missing THEN Block(R_JQ)
       ELSE IF "openssl" \in missing THEN Block(R_OPENSSL)
       ELSE IF "xxd" \in missing THEN Block(R_XXD)
       ELSE Goto("config")
  /\ UNCHANGED <<variant, now, cfg, USER_KEY, PUBLIC_KEY, payload, sh, SIG, CANONICAL>>

\* [[ ! -f config ]]; USER_KEY=$(jq -r '.user_key' ...); PUBLIC_KEY=...; TTL_SECONDS=...
ReadConfig ==
  /\ pc = "config"
  /\ \E c \in Configs, jqInstalled \in BOOLEAN :
       /\ cfg' = c
       /\ IF c.kind = "missing"
          THEN Block(R_CONFIG) /\ UNCHANGED <<USER_KEY, PUBLIC_KEY>>
          ELSE IF variant = "gateRepos" /\ ~jqInstalled
          THEN Abort(COMMAND_NOT_FOUND) /\ UNCHANGED <<USER_KEY, PUBLIC_KEY>>
          ELSE IF c.kind = "unparseable"
          THEN Abort(JQ_PARSE_ERROR) /\ UNCHANGED <<USER_KEY, PUBLIC_KEY>>
          ELSE IF c.kind = "nonobject"
          THEN Abort(JQ_RUNTIME_ERROR) /\ UNCHANGED <<USER_KEY, PUBLIC_KEY>>
          ELSE /\ USER_KEY' = JqR(c.user_key)
               /\ PUBLIC_KEY' = JqR(c.public_key)
               /\ Goto(IF variant = "bootstrap" THEN "validateConfig" ELSE "fetch")
  /\ UNCHANGED <<variant, now, payload, sh, SIG, CANONICAL>>

\* Validate config values (bootstrap script only)
ValidateConfig ==
  /\ pc = "validateConfig"
  /\ IF InvalidConfigValue(USER_KEY) THEN Block(R_USER_KEY_CFG)
     ELSE IF InvalidConfigValue(PUBLIC_KEY) THEN Block(R_PUBLIC_KEY_CFG)
     ELSE Goto("fetch")
  /\ UNCHANGED <<variant, now, cfg, USER_KEY, PUBLIC_KEY, payload, sh, SIG, CANONICAL>>

\* git fetch origin "refs/viberunner/hr/$USER_KEY:..." ; git show ...:hr-signal.json
\* An empty USER_KEY names no ref.  The transport decides what the ref holds.
FetchSignal ==
  /\ pc = "fetch"
  /\ \E fetched \in BOOLEAN, p \in Payloads :
       IF ~fetched \/ USER_KEY = ""
       THEN Block(R_FETCH) /\ UNCHANGED payload
       ELSE /\ payload' = p
            /\ IF p.kind = "nofile" THEN Abort(GIT_FAILED)
               ELSE IF p.kind = "empty" THEN Block(R_PAYLOAD)
               ELSE Goto("extract")
  /\ UNCHANGED <<variant, now, cfg, USER_KEY, PUBLIC_KEY, sh, SIG, CANONICAL>>

\* V=$(echo "$PAYLOAD" | jq -r '.v') ... SIG=$(echo "$PAYLOAD" | jq -r '.sig')
ExtractFields ==
  /\ pc = "extract"
  /\ IF payload.kind = "unparseable"
     THEN Abort(JQ_PARSE_ERROR) /\ UNCHANGED <<sh, SIG>>
     ELSE IF payload.kind = "nonobject"
     THEN Abort(JQ_RUNTIME_ERROR) /\ UNCHANGED <<sh, SIG>>
     ELSE /\ sh' = [f \in FieldNames |-> JqR(payload.fields[f])]
          /\ SIG' = payload.sig
          /\ Goto(IF variant = "bootstrap" THEN "validate" ELSE "userKey")
  /\ UNCHANGED <<variant, now, cfg, USER_KEY, PUBLIC_KEY, payload, CANONICAL>>

\* Validate payload structure (bootstrap script only)
ValidatePayload ==
  /\ pc = "validate"
  /\ IF IsMalformed(sh, SIG) THEN Block(R_MALFORMED) ELSE Goto("userKey")
  /\ UNCHANGED <<variant, now, cfg, USER_KEY, PUBLIC_KEY, payload, sh, SIG, CANONICAL>>

\* Validate user_key matches
CheckUserKey ==
  /\ pc = "userKey"
  /\ IF UserKeyMismatch(sh["user_key"], USER_KEY) THEN Block(R_MISMATCH) ELSE Goto("expiry")
  /\ UNCHANGED <<variant, now, cfg, USER_KEY, PUBLIC_KEY, payload, sh, SIG, CANONICAL>>

\* Check expiration
CheckExpiry ==
  /\ pc = "expiry"
  /\ IF IsExpired(sh["exp_unix"], ToString(now)) THEN Block(R_EXPIRED) ELSE Goto("canonical")
  /\ UNCHANGED <<variant, now, cfg, USER_KEY, PUBLIC_KEY, payload, sh, SIG, CANONICAL>>

\* CANONICAL=$(... jq -cS ...); the mktemp calls; the xxd conversions
PrepareVerify ==
  /\ pc = "canonical"
  /\ CANONICAL' = Canonical(payload)
  /\ \E mktempOk \in BOOLEAN, xxdInstalled \in BOOLEAN :
       IF ~mktempOk THEN Abort(MKTEMP_FAILED)
       ELSE IF variant = "gateRepos" /\ ~xxdInstalled THEN Abort(COMMAND_NOT_FOUND)
       ELSE Goto("verify")
  /\ UNCHANGED <<variant, now, cfg, USER_KEY, PUBLIC_KEY, payload, sh, SIG>>

\* if ! openssl pkeyutl -verify ... 2>/dev/null
VerifySignature ==
  /\ pc = "verify"
  /\ \E opensslInstalled \in BOOLEAN :
       IF /\ (variant = "bootstrap" \/ opensslInstalled)
          /\ OpensslVerify(PUBLIC_KEY, SigBin(SIG), CANONICAL)
       THEN Goto("hrOk")
       ELSE Block(R_SIGNATURE)
  /\ UNCHANGED <<variant, now, cfg, USER_KEY, PUBLIC_KEY, payload, sh, SIG, CANONICAL>>

\* Check hr_ok flag; exit 0
CheckHrOk ==
  /\ pc = "hrOk"
  /\ IF HrNotOk(sh["hr_ok"])
     THEN Block(R_BELOW)
     ELSE /\ pc' = "done"
          /\ exitCode' = EXIT_ALLOW
          /\ reason' = NoReason
  /\ UNCHANGED <<variant, now, cfg, USER_KEY, PUBLIC_KEY, payload, sh, SIG, CANONICAL>>

Done == pc = "done"

\* ------------------------------------------- the contract, from the inputs
\* What the verifier's contract says about the inputs of a run, stated on the
\* typed JSON values and not on the shell strings the script compares.
NumOf(j) == CHOOSE n \in 0..(MaxTime + 1) : ToString(n) = j.s
ConfigValid(c) ==
  /\ c.kind = "object"
  /\ c.user_key.t = "str" /\ c.user_key.s # ""
  /\ c.public_key.t = "str" /\ c.public_key.s # ""
IsToken(p) == p.kind = "object"
WellFormed(p) ==
  /\ IsToken(p)
  /\ \A f \in FieldNames : p.fields[f] # JNull
  /\ p.sig.kind # "null"
SubjectMatches(p, c) == c.user_key.t = "str" /\ p.fields["user_key"] = c.user_key
Unexpired(p, t) == p.fields["exp_unix"].t = "num" /\ NumOf(p.fields["exp_unix"]) > t
ExpiredAt(p, t) == p.fields["exp_unix"].t = "num" /\ NumOf(p.fields["exp_unix"]) <= t
SigValid(p, c) ==
  /\ c.public_key.t = "str"
  /\ c.public_key.s \in Keys
  /\ p.sig = SigOf(c.public_key.s, Msg(p.fields, {}))
Decided(p) == p.fields["hr_ok"] = JBool(TRUE)

\* The reason the contract prescribes: the one of the first failing step in
\* the order config, fetch, parse, subject, expiry, signature, decision.
FirstFailure(c, p, t) ==
  IF c.kind = "missing" THEN R_CONFIG
  ELSE IF ~(c.user_key.t = "str" /\ c.user_key.s # "") THEN R_USER_KEY_CFG
  ELSE IF ~(c.public_key.t = "str" /\ c.public_key.s # "") THEN R_PUBLIC_KEY_CFG
  ELSE IF p.kind = "unset" THEN R_FETCH
  ELSE IF p.kind = "empty" THEN R_PAYLOAD
  ELSE IF ~WellFormed(p) THEN R_MALFORMED
  ELSE IF ~SubjectMatches(p, c) THEN R_MISMATCH
  ELSE IF ~Unexpired(p, t) THEN R_EXPIRED
  ELSE IF ~SigValid(p, c) THEN R_SIGNATURE
  ELSE IF ~Decided(p) THEN R_BELOW
  ELSE NoReason

ToolReasons == {R_JQ, R_OPENSSL, R_XXD}

\* ----------------------------------------------------------------- claims

\* C1: the script exits 0 only if the config exists with non-null user_key
\* and public_key, the payload is present with every field non-null,
\* payload.user_key equals the configured user_key, exp_unix > now, the
\* signature verifies against the configured public key over the canonical
\* fields, and hr_ok is true.
C1_AllowOnlyIfAllHold ==
  (Done /\ exitCode = EXIT_ALLOW) =>
    /\ cfg.kind = "object"
    /\ cfg.user_key # JNull
    /\ cfg.public_key # JNull
    /\ WellFormed(payload)
    /\ payload.fields["user_key"] = cfg.user_key
    /\ Unexpired(payload, now)
    /\ SigValid(payload, cfg)
    /\ Decided(payload)

\* C2: every terminating run exits with status 0 or 2.
C2_ExitIsAllowOrBlock ==
  Done => exitCode \in {EXIT_ALLOW, EXIT_BLOCK}

C3_WitnessLater ==
  /\ Done /\ variant = "bootstrap"
  /\ SubjectMatches(payload, cfg)
  /\ ~SigValid(payload, cfg)
  /\ ~Decided(payload)
  /\ reason = R_SIGNATURE

C5_HrNotOkIsDenied ==
  (Done /\ WellFormed(payload) /\ payload.fields["hr_ok"] = JBool(FALSE)
        /\ payload.fields["v"] = JNum(SUPPORTED_VERSION)
        /\ SigValid(payload, cfg) /\ SubjectMatches(payload, cfg)
        /\ Unexpired(payload, now)) =>
    /\ exitCode = EXIT_BLOCK
    /\ reason # NoReason

\* C6: a well-formed token for subject A is denied with the subject-mismatch
\* reason by a verifier configured for a subject B # A, also when it is
\* validly signed, unexpired and has hr_ok = true.
C6_NotTransferable ==
  (Done /\ WellFormed(payload) /\ cfg.kind = "object" /\ cfg.user_key.t = "str"
        /\ payload.fields["user_key"] # cfg.user_key) =>
    /\ exitCode = EXIT_BLOCK
    /\ reason = R_MISMATCH

\* C6 witness: a validly signed, unexpired token with hr_ok = true of
\* another subject has been denied.
C6_Witness ==
  /\ Done
  /\ WellFormed(payload)
  /\ cfg.kind = "object" /\ cfg.user_key.t = "str"
  /\ payload.fields["user_key"] # cfg.user_key
  /\ SigValid(payload, cfg) /\ Unexpired(payload, now) /\ Decided(payload)
  /\ exitCode = EXIT_BLOCK /\ reason = R_MISMATCH

\* C7: a token whose version v is not the supported version is never allowed.
C7_UnknownVersionDenied ==
  (Done /\ WellFormed(payload) /\ payload.fields["v"].t = "num"
        /\ payload.fields["v"] # JNum(SUPPORTED_VERSION)) =>
    exitCode # EXIT_ALLOW

\* The signature was made over the seven fields, and a field was changed
\* afterwards; the signature was made with a key the verifier does not trust.
ChangedAfterSigning(p) ==
  p.sig.kind = "sig" /\ p.sig.msg.extra = {} /\ p.sig.msg.fields # p.fields
SignedWithOtherKey(p, c) ==
  p.sig.kind = "sig" /\ c.kind = "object" /\ p.sig.key # JqR(c.public_key)
\* What was signed was a token this verifier accepts: trusted key, the
\* configured subject, not expired.
ValidWhenSigned(p, c, t) ==
  /\ p.sig.kind = "sig" /\ p.sig.msg.extra = {}
  /\ c.kind = "object" /\ p.sig.key = JqR(c.public_key)
  /\ p.sig.msg.fields["user_key"] = c.user_key
  /\ NumOf(p.sig.msg.fields["exp_unix"]) > t
\* The run passed every verification step and came to the hr_ok decision.
VerificationSucceeded == exitCode = EXIT_ALLOW \/ reason = R_BELOW
SameSubject(p, c) == JqR(p.fields["user_key"]) = JqR(c.user_key)

C9_ExtraFieldDoesNotVerify ==
  (Done /\ WellFormed(payload) /\ payload.fields["v"] = JNum(SUPPORTED_VERSION)
        /\ (payload.extra # {} \/ (payload.sig.kind = "sig" /\ payload.sig.msg.extra # {}))) =>
    ~VerificationSucceeded

\* C10: every run that ends in the block status has written a reason, and
\* the reason is the one of the failure that ended it.
C10_EveryBlockHasItsReason ==
  (Done /\ exitCode = EXIT_BLOCK) =>
    /\ reason # NoReason
    /\ reason \notin ToolReasons => reason = FirstFailure(cfg, payload, now)

(***************************************************************************)
(* The debounced publisher: updateSessionSignalRefs.  The repository holds *)
(* two versions of it:                                                     *)
(*   "atomic"       services/api/src/lib/hr-signal.ts: one conditional     *)
(*                  UPDATE claims the publish (1 second);                  *)
(*   "selectUpdate" unnamed/part_004: SELECT the timestamp, publish, then  *)
(*                  UPDATE the timestamp (5 seconds).                      *)
(* Every await of the function is one step of an invocation, so other      *)
(* invocations (of this or of another process) interleave between them.    *)
(* The model follows the invocations for one subject (one hr_status row).  *)
(* Time is kept as ages: the age of a timestamp is NOW - timestamp,        *)
(* counted in debounce intervals of the version modelled (TickMs); it      *)
(* grows with every Tick and stops growing at MaxAge, which stands for     *)
(* "MaxAge intervals or more".                                             *)
(***************************************************************************)
MaxAge == 2

\* The server processes (or overlapping requests of one process) that call
\* the function.
Procs == {"web1", "web2"}

Repos == {"r1", "r2"}

PVariants == {"atomic", "selectUpdate"}

NULL == 0 - 1

CLAIM_INTERVAL_MS == 1000

GITHUB_UPDATE_DEBOUNCE_MS == 5000

Older(age) == IF age = NULL THEN NULL ELSE IF age < MaxAge THEN age + 1 ELSE MaxAge

Subject == "alice"

NoToken == [user_key |-> "none", sig |-> "none"]

\* createSignedPayload: a token for the subject, signed with the signer key;
\* it throws when the key cannot be used.
KeyUsable(privateKey) == privateKey = "key"

createSignedPayload(userKey, privateKey) == [user_key |-> userKey, sig |-> privateKey]

\* updateSignalRef: the write of the token to the signal ref of one repo
\* succeeds when GitHub can be reached.
UpdateSignalRefSucceeds(transport) == transport = "ok"

VARIABLES pvariant, last_signal_ref_update_at, gate_repo, signerPrivateKey,
          github, refs, inv, sinceStart

pvars == <<pvariant, last_signal_ref_update_at, gate_repo, signerPrivateKey,
           github, refs, inv, sinceStart>>

\* The length of one Tick.
TickMs == IF pvariant = "atomic" THEN CLAIM_INTERVAL_MS ELSE GITHUB_UPDATE_DEBOUNCE_MS

\* An invocation that has not been made yet.
IdleInvocation ==
  [pc |-> "idle", userId |-> "none", now |-> 0, gateRepos |-> {}, todo |-> {},
   fulfilled |-> {}, claim |-> "none", queried |-> FALSE, issued |-> "none",
   payload |-> NoToken, attempts |-> [r \in Repos |-> 0], logged |-> FALSE,
   outcome |-> "none"]

PInit ==
  /\ pvariant \in PVariants
  /\ last_signal_ref_update_at = NULL
  /\ gate_repo \in [Repos -> {Subject, "inactive"}]
  /\ signerPrivateKey \in {"key", "unusable"}
  /\ github \in {"ok", "failing"}
  /\ refs = [r \in Repos |-> NoToken]
  /\ inv = [p \in Procs |-> IdleInvocation]
  /\ sinceStart = NULL

\* The function returns to its caller (a normal return: the promise resolves).
Returned(rec) == [rec EXCEPT !.pc = "done", !.outcome = "returned", !.now = 0]

\* An error thrown inside the function reaches its outer catch, which logs
\* it and lets the function return.
CaughtByOuterCatch(rec) == Returned([rec EXCEPT !.logged = TRUE])

\* History: the age of the latest start of a publication for the subject.  A
\* start is the claim that succeeded (atomic) or the begin of the pushes
\* (selectUpdate).
RecordStart == sinceStart' = 0

\* hr-signal.ts:28-29: the WHERE condition of the claim, on the age of the
\* stored timestamp: last_signal_ref_update_at < NOW() - INTERVAL '1 second'.
ClaimSucceeds_Always(lastAge) == TRUE

ClaimSucceeds(lastAge) == lastAge = NULL \/ lastAge * TickMs > CLAIM_INTERVAL_MS

\* part_004:35-41: now - lastUpdate < GITHUB_UPDATE_DEBOUNCE_MS.
TooSoon(lastAge, nowAge) ==
  lastAge # NULL /\ (lastAge - nowAge) * TickMs < GITHUB_UPDATE_DEBOUNCE_MS

Invoke(p) ==
  /\ inv[p].pc \in {"idle", "done"}
  /\ inv' = [inv EXCEPT ![p] =
               [IdleInvocation EXCEPT
                  !.pc = IF pvariant = "atomic" THEN "claim" ELSE "debounce",
                  !.userId = Subject]]
  /\ UNCHANGED <<pvariant, last_signal_ref_update_at, gate_repo,
                 signerPrivateKey, github, refs, sinceStart>>

AtomicClaim_FallsThrough(p) ==
  /\ pvariant = "atomic"
  /\ inv[p].pc = "claim"
  /\ IF ClaimSucceeds(last_signal_ref_update_at)
     THEN /\ last_signal_ref_update_at' = 0
          /\ inv' = [inv EXCEPT ![p].pc = "find", ![p].claim = "won"]
          /\ RecordStart
     ELSE /\ inv' = [inv EXCEPT ![p].pc = "find", ![p].claim = "lost"]
          /\ UNCHANGED <<last_signal_ref_update_at, sinceStart>>
  /\ UNCHANGED <<pvariant, gate_repo, signerPrivateKey, github, refs>>

AtomicClaim(p) ==
  /\ pvariant = "atomic"
  /\ inv[p].pc = "claim"
  /\ IF ClaimSucceeds(last_signal_ref_update_at)
     THEN /\ last_signal_ref_update_at' = 0
          /\ inv' = [inv EXCEPT ![p].pc = "find", ![p].claim = "won"]
          /\ RecordStart
     ELSE /\ inv' = [inv EXCEPT ![p] = Returned([@ EXCEPT !.claim = "lost"])]
          /\ UNCHANGED <<last_signal_ref_update_at, sinceStart>>
  /\ UNCHANGED <<pvariant, gate_repo, signerPrivateKey, github, refs>>

SelectDebounce(p) ==
  /\ pvariant = "selectUpdate"
  /\ inv[p].pc = "debounce"
  /\ IF TooSoon(last_signal_ref_update_at, inv[p].now)
     THEN inv' = [inv EXCEPT ![p] = Returned([@ EXCEPT !.claim = "lost"])]
     ELSE inv' = [inv EXCEPT ![p].pc = "find", ![p].claim = "won"]
  /\ UNCHANGED <<pvariant, last_signal_ref_update_at, gate_repo,
                 signerPrivateKey, github, refs, sinceStart>>

FindGateRepos(p) ==
  /\ inv[p].pc = "find"
  /\ LET gateRepos == {r \in Repos : gate_repo[r] = inv[p].userId}
     IN inv' = [inv EXCEPT ![p] =
                  IF gateRepos = {}
                  THEN Returned([@ EXCEPT !.queried = TRUE])
                  ELSE [@ EXCEPT !.queried = TRUE, !.gateRepos = gateRepos,
                                 !.pc = "sign"]]
  /\ UNCHANGED <<pvariant, last_signal_ref_update_at, gate_repo,
                 signerPrivateKey, github, refs, sinceStart>>

SignPayload_PublishesAnyway(p) ==
  /\ inv[p].pc = "sign"
  /\ inv' = [inv EXCEPT ![p] =
               [@ EXCEPT !.issued = IF KeyUsable(signerPrivateKey)
                                    THEN "ok" ELSE "failed",
                         !.pc = "push",
                         !.todo = inv[p].gateRepos,
                         !.payload = createSignedPayload(inv[p].userId,
                                                        signerPrivateKey)]]
  /\ IF pvariant = "selectUpdate"
     THEN RecordStart
     ELSE UNCHANGED sinceStart
  /\ UNCHANGED <<pvariant, last_signal_ref_update_at, gate_repo,
                 signerPrivateKey, github, refs>>

SignPayload(p) ==
  /\ inv[p].pc = "sign"
  /\ IF KeyUsable(signerPrivateKey)
     THEN /\ inv' = [inv EXCEPT ![p] =
                       [@ EXCEPT !.issued = "ok", !.pc = "push",
                                 !.todo = inv[p].gateRepos,
                                 !.payload = createSignedPayload(inv[p].userId,
                                                                signerPrivateKey)]]
          /\ IF pvariant = "selectUpdate"
             THEN RecordStart
             ELSE UNCHANGED sinceStart
     ELSE /\ inv' = [inv EXCEPT ![p] =
                       CaughtByOuterCatch([@ EXCEPT !.issued = "failed"])]
          /\ UNCHANGED sinceStart
  /\ UNCHANGED <<pvariant, last_signal_ref_update_at, gate_repo,
                 signerPrivateKey, github, refs>>

\* After Promise.allSettled: the failures are logged; the selectUpdate
\* version then writes the timestamp if any repo was updated.
Settled(rec) ==
  LET logged == [rec EXCEPT !.logged = @ \/ (rec.gateRepos # rec.fulfilled)]
  IN IF pvariant = "selectUpdate" /\ rec.fulfilled # {}
     THEN [logged EXCEPT !.pc = "stamp"]
     ELSE Returned(logged)

UpdateRepo_Retries(p) ==
  /\ inv[p].pc = "push"
  /\ \E r \in inv[p].todo :
       LET ok == UpdateSignalRefSucceeds(github)
           rec == [inv[p] EXCEPT !.todo = IF ok THEN @ \ {r} ELSE @,
                                 !.attempts[r] = IF @ < 2 THEN @ + 1 ELSE @,
                                 !.fulfilled = IF ok THEN @ \cup {r} ELSE @]
       IN /\ refs' = IF ok THEN [refs EXCEPT ![r] = inv[p].payload] ELSE refs
          /\ inv' = [inv EXCEPT ![p] = IF rec.todo = {} THEN Settled(rec) ELSE rec]
  /\ UNCHANGED <<pvariant, last_signal_ref_update_at, gate_repo,
                 signerPrivateKey, github, sinceStart>>

UpdateRepo(p) ==
  /\ inv[p].pc = "push"
  /\ \E r \in inv[p].todo :
       LET ok == UpdateSignalRefSucceeds(github)
           rec == [inv[p] EXCEPT !.todo = @ \ {r},
                                 !.attempts[r] = @ + 1,
                                 !.fulfilled = IF ok THEN @ \cup {r} ELSE @]
       IN /\ refs' = IF ok THEN [refs EXCEPT ![r] = inv[p].payload] ELSE refs
          /\ inv' = [inv EXCEPT ![p] = IF rec.todo = {} THEN Settled(rec) ELSE rec]
  /\ UNCHANGED <<pvariant, last_signal_ref_update_at, gate_repo,
                 signerPrivateKey, github, sinceStart>>

StampTimestamp(p) ==
  /\ pvariant = "selectUpdate"
  /\ inv[p].pc = "stamp"
  /\ last_signal_ref_update_at' = inv[p].now
  /\ inv' = [inv EXCEPT ![p] = Returned(@)]
  /\ UNCHANGED <<pvariant, gate_repo, signerPrivateKey, github, refs,
                 sinceStart>>

\* GitHub becomes reachable again.
Recover ==
  /\ github = "failing"
  /\ github' = "ok"
  /\ UNCHANGED <<pvariant, last_signal_ref_update_at, gate_repo,
                 signerPrivateKey, refs, inv, sinceStart>>

\* One interval passes.  The SELECT of the selectUpdate version is issued in
\* the same interval in which the invocation read the clock.
Tick ==
  /\ \A p \in Procs : inv[p].pc # "debounce"
  /\ last_signal_ref_update_at' = Older(last_signal_ref_update_at)
  /\ sinceStart' = Older(sinceStart)
  /\ inv' = [p \in Procs |->
               IF pvariant = "selectUpdate" /\ inv[p].pc \notin {"idle", "done"}
               THEN [inv[p] EXCEPT !.now = Older(@)]
               ELSE inv[p]]
  /\ UNCHANGED <<pvariant, gate_repo, signerPrivateKey, github, refs>>

\* ------------------------------------------------ the publisher's contract
\* The invocation is past its debounce claim and is constructing or pushing
\* a token.
PastClaim(p) == inv[p].claim = "won" /\ inv[p].pc \in {"sign", "push"}

\* The step is the claim attempt of invocation p.
ClaimAttempt(p) == inv[p].pc = "claim" /\ inv'[p].pc # "claim"

\* The invocation did nothing after its claim.
NoOp(rec) ==
  /\ rec.pc = "done"
  /\ rec.outcome = "returned"
  /\ ~rec.queried
  /\ rec.issued = "none"
  /\ rec.payload = NoToken
  /\ \A r \in Repos : rec.attempts[r] = 0

\* C11: at most one concurrent publish per subject: in the atomic version no
\* two invocations for the same user are past the debounce claim, constructing
\* or pushing a token, at the same time.
C11_AtMostOnePublisher ==
  pvariant = "atomic" =>
    \A p, q \in Procs :
      (p # q /\ inv[p].userId = inv[q].userId) => ~(PastClaim(p) /\ PastClaim(q))

\* C12: debounce of the atomic-claim publisher: a claim attempted less than
\* the minimum interval after the last successful claim fails and the
\* invocation is a no-op; successful claims (the only origin of transport
\* writes) are at least the minimum interval apart.
C12_ClaimsAnIntervalApart ==
  [][pvariant = "atomic" =>
       /\ \A p \in Procs :
            ClaimAttempt(p) =>
              IF sinceStart # NULL /\ sinceStart * TickMs < CLAIM_INTERVAL_MS
              THEN /\ inv'[p].claim = "lost"
                   /\ NoOp(inv'[p])
                   /\ UNCHANGED <<last_signal_ref_update_at, refs>>
              ELSE inv'[p].claim = "won" =>
                     (sinceStart = NULL \/ sinceStart * TickMs >= CLAIM_INTERVAL_MS)
       /\ refs' # refs => \E p \in Procs : inv[p].claim = "won" /\ inv[p].pc = "push"
    ]_pvars

C12_Witness ==
  /\ pvariant = "atomic"
  /\ \E p, q \in Procs :
       /\ inv[p].claim = "won" /\ inv[p].fulfilled # {}
       /\ inv[q].claim = "lost" /\ inv[q].pc = "done"
  /\ sinceStart = 0

\* C13: in the SELECT-then-UPDATE version no two invocations start pushing
\* refs for the user less than GITHUB_UPDATE_DEBOUNCE_MS apart.
C13_PushesADebounceApart ==
  [][pvariant = "selectUpdate" =>
       \A p \in Procs :
         (inv[p].pc = "sign" /\ inv'[p].pc = "push") =>
           (sinceStart = NULL \/ sinceStart * TickMs >= GITHUB_UPDATE_DEBOUNCE_MS)
    ]_pvars

\* C14: a failed debounce claim (the conditional UPDATE affects 0 rows)
\* returns at once without side effects: no gate-repo query, no token, no
\* transport write, and last_signal_ref_update_at unchanged.
C14_FailedClaimIsNoOp ==
  [][pvariant = "atomic" =>
       \A p \in Procs :
         /\ (ClaimAttempt(p) /\ inv'[p].claim = "lost") =>
              /\ NoOp(inv'[p])
              /\ UNCHANGED <<last_signal_ref_update_at, refs>>
         /\ inv[p].claim = "lost" => (inv[p].pc = "done" /\ NoOp(inv[p]))
    ]_pvars

C14_Witness ==
  /\ pvariant = "atomic"
  /\ last_signal_ref_update_at = 1
  /\ \E p \in Procs : inv[p].claim = "lost" /\ inv[p].pc = "done"

\* Every write of the invocation's publish was rejected.
AllRejected(p) ==
  inv[p].pc = "done" /\ inv[p].issued = "ok" /\ inv[p].fulfilled = {}

Published == \E r \in Repos : refs[r] # NoToken

\* What an invocation does about a transport write that fails: no repo is
\* written twice, nothing is thrown, and the failure is logged by the time
\* the function returns.
FailureHandled(p) ==
  /\ \A r \in Repos : inv[p].attempts[r] <= 1
  /\ inv[p].outcome # "threw"
  /\ (inv[p].pc = "done" /\ inv[p].issued = "ok"
        /\ inv[p].fulfilled # inv[p].gateRepos) =>
       (inv[p].logged /\ inv[p].outcome = "returned")

\* C15: a failed transport write is logged, not thrown to the caller and not
\* retried within the invocation; with samples that keep arriving (further
\* invocations) and a transport that recovers, a token is eventually
\* published.
C15_FailedPublishIsRetriedByNextSample ==
  /\ [](\A p \in Procs : FailureHandled(p))
  /\ (KeyUsable(signerPrivateKey) /\ (\E r \in Repos : gate_repo[r] = Subject))
       => <>Published
  /\ (\E p \in Procs : AllRejected(p)) ~> Published

C15_Witness ==
  /\ \E p \in Procs : AllRejected(p) /\ inv[p].logged
  /\ github = "ok"
  /\ Published

\* C16: no unsigned or malformed token is ever published: an invocation whose
\* token issuance failed writes to no signal ref, and every token on a signal
\* ref is signed with the usable signer key.
C16_NoUnsignedTokenPublished ==
  /\ \A p \in Procs :
       inv[p].issued = "failed" =>
         /\ inv[p].pc = "done"
         /\ inv[p].payload = NoToken
         /\ \A r \in Repos : inv[p].attempts[r] = 0
  /\ \A r \in Repos :
       refs[r] # NoToken => (KeyUsable(refs[r].sig) /\ refs[r].user_key = Subject)

C16_Witness ==
  /\ ~KeyUsable(signerPrivateKey)
  /\ \E p \in Procs : inv[p].issued = "failed" /\ inv[p].queried
  /\ ~Published

\* C17: an issuance failure (signer key unavailable) reaches the caller of
\* updateSessionSignalRefs as an error: the function does not return normally.
C17_IssuanceFailurePropagates ==
  \A p \in Procs :
    (inv[p].pc = "done" /\ inv[p].issued = "failed") => inv[p].outcome = "threw"

(***************************************************************************)
(* The metric stabilizer: RunStateMachine (packages/shared/src/types.ts).  *)
(* One machine, its public methods called in any order with any pace, its  *)
(* 5-second timeout check, and the time since the last heartbeat counted   *)
(* in periods of that check (the age stops growing at MaxHeartbeatAge,     *)
(* which is past the heartbeat timeout).                                   *)
(***************************************************************************)
MaxK == 3

MaxCount == MaxK + 1

MaxHeartbeatAge == 7

PACE_THRESHOLD_SECONDS == 600

HYSTERESIS_BUFFER == 15

HEARTBEAT_TIMEOUT_MS == 30000

TIMEOUT_CHECK_MS == 5000

RunStates == {"NOT_RUNNING", "RUNNING_LOCKED", "RUNNING_UNLOCKED"}

STATE_PERMISSIONS_WritesWhenIdle ==
  [s \in RunStates |->
     [claudeAllowed |-> s # "RUNNING_LOCKED", githubWritesAllowed |-> s # "RUNNING_LOCKED"]]

STATE_PERMISSIONS ==
  [s \in RunStates |->
     IF s = "NOT_RUNNING"
     THEN [claudeAllowed |-> TRUE, githubWritesAllowed |-> FALSE]
     ELSE IF s = "RUNNING_UNLOCKED"
     THEN [claudeAllowed |-> TRUE, githubWritesAllowed |-> TRUE]
     ELSE [claudeAllowed |-> FALSE, githubWritesAllowed |-> FALSE]]

\* Paces offered to updatePace: fast, the two ends of the hysteresis zone,
\* the threshold, slow.
Paces == {500, 585, 600, 615, 650}

NoPace == 0 - 1

\* Two listeners; the first one throws whenever it is called.
Listeners == {"l1", "l2"}

Throwing == {"l1"}

NoEvents == [l \in Listeners |-> <<>>]

VARIABLES smConfig, currentState, lastPace, sinceHeartbeat,
          consecutiveFastReadings, consecutiveSlowReadings,
          timeoutCheckInterval, streakKind, streakLen, lastOp, opSeq,
          listeners, delivered, enteredBy

rvars == <<smConfig, currentState, lastPace, sinceHeartbeat,
           consecutiveFastReadings, consecutiveSlowReadings,
           timeoutCheckInterval, streakKind, streakLen, lastOp, opSeq,
           listeners, delivered, enteredBy>>

lockThreshold == smConfig.paceThreshold - smConfig.hysteresisBuffer

unlockThreshold == smConfig.paceThreshold + smConfig.hysteresisBuffer

IsFast_UpToThreshold(pace) == pace < smConfig.paceThreshold

IsFast(pace) == pace < lockThreshold

IsSlow_FromThreshold(pace) == pace > smConfig.paceThreshold

IsSlow(pace) == pace > unlockThreshold

getPermissions == STATE_PERMISSIONS[currentState]

isHeartbeatStale ==
  IF currentState = "NOT_RUNNING" THEN FALSE
  ELSE sinceHeartbeat * TIMEOUT_CHECK_MS > smConfig.heartbeatTimeout

RInit ==
  /\ smConfig \in [paceThreshold : {PACE_THRESHOLD_SECONDS},
                   hysteresisBuffer : {HYSTERESIS_BUFFER},
                   consecutiveReadingsRequired : 1 .. MaxK,
                   heartbeatTimeout : {HEARTBEAT_TIMEOUT_MS}]
  /\ currentState = "NOT_RUNNING"
  /\ lastPace = NoPace
  /\ sinceHeartbeat = MaxHeartbeatAge
  /\ consecutiveFastReadings = 0
  /\ consecutiveSlowReadings = 0
  /\ timeoutCheckInterval = FALSE
  /\ streakKind = "none"
  /\ streakLen = 0
  /\ lastOp = "new"
  /\ opSeq = 0
  /\ listeners = <<>>
  /\ delivered = NoEvents
  /\ enteredBy = "new"

\* History: which method ran last (a call of forceLock is recorded by its
\* reason), the run of readings of one kind that the machine has received
\* since it entered its current state (counted up to MaxCount), the events
\* each listener was called with during the last method, and the reason of
\* the last state change.
Called(op) == lastOp' = op /\ opSeq' = 1 - opSeq

ReadingKind(pace) ==
  IF pace < smConfig.paceThreshold - smConfig.hysteresisBuffer THEN "fast"
  ELSE IF pace > smConfig.paceThreshold + smConfig.hysteresisBuffer THEN "slow"
  ELSE "zone"

StreakKept == UNCHANGED <<streakKind, streakLen>>

StreakReset == streakKind' = "none" /\ streakLen' = 0

StreakAfter(kind) ==
  /\ streakKind' = kind
  /\ streakLen' = IF streakKind # kind THEN 1
                  ELSE IF streakLen < MaxCount THEN streakLen + 1 ELSE MaxCount

\* emit without the try/catch: a listener that throws ends the loop.
emit_StopsAtThrow(event) ==
  delivered' =
    [l \in Listeners |->
       IF \E i \in 1 .. Len(listeners) :
            /\ listeners[i] = l
            /\ \A j \in 1 .. (i - 1) : listeners[j] \notin Throwing
       THEN <<event>> ELSE <<>>]

\* emit calls every listener of the set, in the order of subscription; what a
\* listener throws is caught and logged.
emit(event) ==
  delivered' =
    [l \in Listeners |->
       IF \E i \in 1 .. Len(listeners) : listeners[i] = l
       THEN <<event>> ELSE <<>>]

startRun_Unlocked ==
  /\ Called("startRun")
  /\ IF currentState # "NOT_RUNNING"
     THEN /\ UNCHANGED <<currentState, sinceHeartbeat, consecutiveFastReadings,
                         consecutiveSlowReadings, timeoutCheckInterval,
                         streakKind, streakLen, enteredBy>>
          /\ delivered' = NoEvents
     ELSE /\ currentState' = "RUNNING_UNLOCKED"
          /\ sinceHeartbeat' = 0
          /\ consecutiveFastReadings' = 0
          /\ consecutiveSlowReadings' = 0
          /\ emit([previousState |-> currentState, newState |-> "RUNNING_UNLOCKED",
                   reason |-> "run_started"])
          /\ enteredBy' = "run_started"
          /\ timeoutCheckInterval' = TRUE
          /\ StreakReset
  /\ UNCHANGED <<smConfig, lastPace, listeners>>

startRun ==
  /\ Called("startRun")
  /\ IF currentState # "NOT_RUNNING"
     THEN /\ UNCHANGED <<currentState, sinceHeartbeat, consecutiveFastReadings,
                         consecutiveSlowReadings, timeoutCheckInterval,
                         streakKind, streakLen, enteredBy>>
          /\ delivered' = NoEvents
     ELSE /\ currentState' = "RUNNING_LOCKED"
          /\ sinceHeartbeat' = 0
          /\ consecutiveFastReadings' = 0
          /\ consecutiveSlowReadings' = 0
          /\ emit([previousState |-> currentState, newState |-> "RUNNING_LOCKED",
                   reason |-> "run_started"])
          /\ enteredBy' = "run_started"
          /\ timeoutCheckInterval' = TRUE
          /\ StreakReset
  /\ UNCHANGED <<smConfig, lastPace, listeners>>

endRun_KeepsPace ==
  /\ Called("endRun")
  /\ IF currentState = "NOT_RUNNING"
     THEN /\ UNCHANGED <<currentState, consecutiveFastReadings,
                         consecutiveSlowReadings, timeoutCheckInterval,
                         streakKind, streakLen, enteredBy>>
          /\ delivered' = NoEvents
     ELSE /\ currentState' = "NOT_RUNNING"
          /\ consecutiveFastReadings' = 0
          /\ consecutiveSlowReadings' = 0
          /\ emit([previousState |-> currentState, newState |-> "NOT_RUNNING",
                   reason |-> "run_ended"])
          /\ enteredBy' = "run_ended"
          /\ timeoutCheckInterval' = FALSE
          /\ StreakReset
  /\ UNCHANGED <<smConfig, lastPace, sinceHeartbeat, listeners>>

endRun ==
  /\ Called("endRun")
  /\ IF currentState = "NOT_RUNNING"
     THEN /\ UNCHANGED <<currentState, lastPace, consecutiveFastReadings,
                         consecutiveSlowReadings, timeoutCheckInterval,
                         streakKind, streakLen, enteredBy>>
          /\ delivered' = NoEvents
     ELSE /\ currentState' = "NOT_RUNNING"
          /\ lastPace' = NoPace
          /\ consecutiveFastReadings' = 0
          /\ consecutiveSlowReadings' = 0
          /\ emit([previousState |-> currentState, newState |-> "NOT_RUNNING",
                   reason |-> "run_ended"])
          /\ enteredBy' = "run_ended"
          /\ timeoutCheckInterval' = FALSE
          /\ StreakReset
  /\ UNCHANGED <<smConfig, sinceHeartbeat, listeners>>

updatePace(pace) ==
  /\ Called("updatePace")
  /\ IF currentState = "NOT_RUNNING"
     THEN /\ UNCHANGED <<currentState, lastPace, sinceHeartbeat,
                         consecutiveFastReadings, consecutiveSlowReadings,
                         streakKind, streakLen, enteredBy>>
          /\ delivered' = NoEvents
     ELSE LET K == smConfig.consecutiveReadingsRequired
              fast == IF IsFast(pace) THEN consecutiveFastReadings + 1 ELSE 0
              slow == IF IsFast(pace) THEN 0
                      ELSE IF IsSlow(pace) THEN consecutiveSlowReadings + 1
                      ELSE 0
          IN /\ fast <= MaxCount
             /\ slow <= MaxCount
             /\ lastPace' = pace
             /\ sinceHeartbeat' = 0
             /\ IF currentState = "RUNNING_LOCKED" /\ fast >= K
                THEN /\ currentState' = "RUNNING_UNLOCKED"
                     /\ consecutiveFastReadings' = 0
                     /\ consecutiveSlowReadings' = slow
                     /\ emit([previousState |-> currentState,
                              newState |-> "RUNNING_UNLOCKED",
                              reason |-> "pace_change"])
                     /\ enteredBy' = "pace_change"
                     /\ StreakReset
                ELSE IF currentState = "RUNNING_UNLOCKED" /\ slow >= K
                THEN /\ currentState' = "RUNNING_LOCKED"
                     /\ consecutiveSlowReadings' = 0
                     /\ consecutiveFastReadings' = fast
                     /\ emit([previousState |-> currentState,
                              newState |-> "RUNNING_LOCKED",
                              reason |-> "pace_change"])
                     /\ enteredBy' = "pace_change"
                     /\ StreakReset
                ELSE /\ currentState' = currentState
                     /\ consecutiveFastReadings' = fast
                     /\ consecutiveSlowReadings' = slow
                     /\ delivered' = NoEvents
                     /\ UNCHANGED enteredBy
                     /\ StreakAfter(ReadingKind(pace))
  /\ UNCHANGED <<smConfig, timeoutCheckInterval, listeners>>

\* The body of forceLock: the state after the call.
ForceLocked_KeepsState(lockReason) ==
  IF lockReason = "run_ended" /\ currentState # "NOT_RUNNING" THEN "NOT_RUNNING"
  ELSE currentState

ForceLocked(lockReason) ==
  IF currentState = "NOT_RUNNING" THEN currentState
  ELSE IF currentState = "RUNNING_LOCKED" /\ lockReason # "run_ended" THEN currentState
  ELSE IF lockReason = "run_ended" THEN "NOT_RUNNING"
  ELSE "RUNNING_LOCKED"

\* forceLock returns early, before it emits, in NOT_RUNNING and (for a reason
\* other than run_ended) in RUNNING_LOCKED.
ForceLockReturnsEarly(lockReason) ==
  \/ currentState = "NOT_RUNNING"
  \/ currentState = "RUNNING_LOCKED" /\ lockReason # "run_ended"

forceLock(lockReason) ==
  /\ Called(lockReason)
  /\ currentState' = ForceLocked(lockReason)
  /\ IF ForceLockReturnsEarly(lockReason)
     THEN delivered' = NoEvents /\ UNCHANGED enteredBy
     ELSE /\ emit([previousState |-> currentState,
                   newState |-> ForceLocked(lockReason), reason |-> lockReason])
          /\ enteredBy' = lockReason
  /\ IF currentState' = currentState THEN StreakKept ELSE StreakReset
  /\ UNCHANGED <<smConfig, lastPace, sinceHeartbeat, consecutiveFastReadings,
                 consecutiveSlowReadings, timeoutCheckInterval, listeners>>

\* The callback of setInterval(..., 5000) set by startTimeoutCheck.
TimeoutCheck ==
  /\ timeoutCheckInterval
  /\ Called("timeoutCheck")
  /\ IF isHeartbeatStale /\ currentState = "RUNNING_UNLOCKED"
     THEN /\ currentState' = ForceLocked("heartbeat_timeout")
          /\ emit([previousState |-> currentState,
                   newState |-> ForceLocked("heartbeat_timeout"),
                   reason |-> "heartbeat_timeout"])
          /\ enteredBy' = "heartbeat_timeout"
     ELSE /\ currentState' = currentState
          /\ delivered' = NoEvents
          /\ UNCHANGED enteredBy
  /\ IF currentState' = currentState THEN StreakKept ELSE StreakReset
  /\ UNCHANGED <<smConfig, lastPace, sinceHeartbeat, consecutiveFastReadings,
                 consecutiveSlowReadings, timeoutCheckInterval, listeners>>

\* listeners is a Set: adding a listener that is already in it changes
\* nothing, and the listeners are called in the order they were added.
onStateChange(listener) ==
  /\ Called("onStateChange")
  /\ listeners' = IF \E i \in 1 .. Len(listeners) : listeners[i] = listener
                  THEN listeners ELSE Append(listeners, listener)
  /\ delivered' = NoEvents
  /\ UNCHANGED <<smConfig, currentState, lastPace, sinceHeartbeat,
                 consecutiveFastReadings, consecutiveSlowReadings,
                 timeoutCheckInterval, streakKind, streakLen, enteredBy>>

\* The function returned by onStateChange: this.listeners.delete(listener).
unsubscribe(listener) ==
  /\ Called("unsubscribe")
  /\ listeners' = SelectSeq(listeners, LAMBDA l : l # listener)
  /\ delivered' = NoEvents
  /\ UNCHANGED <<smConfig, currentState, lastPace, sinceHeartbeat,
                 consecutiveFastReadings, consecutiveSlowReadings,
                 timeoutCheckInterval, streakKind, streakLen, enteredBy>>

destroy ==
  /\ Called("destroy")
  /\ timeoutCheckInterval' = FALSE
  /\ listeners' = <<>>
  /\ delivered' = NoEvents
  /\ UNCHANGED <<smConfig, currentState, lastPace, sinceHeartbeat,
                 consecutiveFastReadings, consecutiveSlowReadings,
                 streakKind, streakLen, enteredBy>>

\* One period of the timeout check passes.
RTick ==
  /\ sinceHeartbeat < MaxHeartbeatAge
  /\ sinceHeartbeat' = sinceHeartbeat + 1
  /\ UNCHANGED <<smConfig, currentState, lastPace, consecutiveFastReadings,
                 consecutiveSlowReadings, timeoutCheckInterval, streakKind,
                 streakLen, lastOp, opSeq, listeners, delivered, enteredBy>>


\* ------------------------------------------- the stabilizer's contract
K == smConfig.consecutiveReadingsRequired

\* The readings of one kind received in a row in the current state, before
\* the reading of this step.
FastBefore == IF streakKind = "fast" THEN streakLen ELSE 0

SlowBefore == IF streakKind = "slow" THEN streakLen ELSE 0

\* The step is a call of the method.
CallOf(op) == lastOp' = op /\ opSeq' # opSeq

\* C18: never open on start: the machine starts in NOT_RUNNING, startRun from
\* NOT_RUNNING moves to RUNNING_LOCKED with both consecutive counters 0, and
\* no step leads from NOT_RUNNING directly to RUNNING_UNLOCKED.
C18_NeverOpenOnStart ==
  /\ currentState = "NOT_RUNNING"
  /\ [][currentState = "NOT_RUNNING" =>
          /\ currentState' # "RUNNING_UNLOCKED"
          /\ CallOf("startRun") =>
               /\ currentState' = "RUNNING_LOCKED"
               /\ consecutiveFastReadings' = 0
               /\ consecutiveSlowReadings' = 0
       ]_rvars

C18_Witness ==
  /\ currentState = "RUNNING_LOCKED"
  /\ lastOp = "startRun"
  /\ lastPace # NoPace

\* C19: from RUNNING_LOCKED, updatePace unlocks exactly on the K-th
\* consecutive reading faster than threshold - buffer: never on another
\* reading or by another method, and always on that one.
C19_UnlockOnKthFastReading ==
  /\ [][(currentState = "RUNNING_LOCKED" /\ currentState' = "RUNNING_UNLOCKED") =>
          /\ CallOf("updatePace")
          /\ ReadingKind(lastPace') = "fast"
          /\ FastBefore + 1 = K
       ]_rvars
  /\ [](currentState = "RUNNING_LOCKED" => ~(streakKind = "fast" /\ streakLen >= K))

\* C20: hysteresis on relock: from RUNNING_UNLOCKED, updatePace relocks
\* exactly on the K-th consecutive reading slower than threshold + buffer; a
\* single such reading does not relock when K is more than 1.
C20_RelockOnKthSlowReading ==
  /\ [][(currentState = "RUNNING_UNLOCKED" /\ currentState' = "RUNNING_LOCKED"
           /\ CallOf("updatePace")) =>
          /\ ReadingKind(lastPace') = "slow"
          /\ SlowBefore + 1 = K
       ]_rvars
  /\ [](currentState = "RUNNING_UNLOCKED" => ~(streakKind = "slow" /\ streakLen >= K))

C20_Witness ==
  /\ K >= 2
  /\ currentState = "RUNNING_LOCKED"
  /\ lastOp = "updatePace"
  /\ ReadingKind(lastPace) = "slow"
  /\ streakKind = "none"

C22_EndRunClearsTheRun ==
  /\ [][(CallOf("endRun") /\ currentState # "NOT_RUNNING") =>
          /\ currentState' = "NOT_RUNNING"
          /\ consecutiveFastReadings' = 0
          /\ consecutiveSlowReadings' = 0
          /\ lastPace' = NoPace
       ]_rvars
  /\ [][(CallOf("updatePace") /\ currentState = "NOT_RUNNING") =>
          UNCHANGED <<currentState, lastPace, sinceHeartbeat,
                      consecutiveFastReadings, consecutiveSlowReadings,
                      timeoutCheckInterval>>
       ]_rvars
  /\ [][(currentState = "NOT_RUNNING" /\ currentState' # "NOT_RUNNING") =>
          CallOf("startRun")
       ]_rvars

C22_Witness ==
  /\ currentState = "NOT_RUNNING"
  /\ lastOp = "updatePace"
  /\ lastPace = NoPace
  /\ sinceHeartbeat = 0
  /\ ~timeoutCheckInterval

\* C23: the permissions of the current state: GitHub writes are allowed
\* exactly in RUNNING_UNLOCKED, and Claude is blocked exactly in
\* RUNNING_LOCKED.
C23_PermissionsFollowState ==
  /\ getPermissions.githubWritesAllowed <=> currentState = "RUNNING_UNLOCKED"
  /\ ~getPermissions.claudeAllowed <=> currentState = "RUNNING_LOCKED"

C23_Witness ==
  /\ currentState = "RUNNING_UNLOCKED"
  /\ getPermissions.githubWritesAllowed
  /\ getPermissions.claudeAllowed

C33_StateChangeNotification ==
  [][opSeq' # opSeq =>
       LET subscribed == {listeners[i] : i \in 1 .. Len(listeners)}
           reasonOf == [startRun |-> "run_started", endRun |-> "run_ended",
                        updatePace |-> "pace_change",
                        heartbeat_timeout |-> "heartbeat_timeout",
                        timeoutCheck |-> "heartbeat_timeout",
                        run_ended |-> "run_ended"]
       IN \A l \in Listeners :
            delivered'[l] =
              IF currentState' # currentState /\ l \in subscribed
              THEN <<[previousState |-> currentState,
                      newState |-> currentState',
                      reason |-> reasonOf[lastOp']]>>
              ELSE <<>>
    ]_rvars

C33_Witness ==
  /\ listeners = <<"l1", "l2">>
  /\ lastOp = "updatePace"
  /\ \A l \in Listeners :
       delivered[l] = <<[previousState |-> "RUNNING_LOCKED",
                         newState |-> "RUNNING_UNLOCKED",
                         reason |-> "pace_change"]>>

\* C34: after forceLock('heartbeat_timeout') (called directly or by the
\* timeout check) has moved the machine from RUNNING_UNLOCKED to
\* RUNNING_LOCKED, qualification is proven again: the machine returns to
\* RUNNING_UNLOCKED only by a fast reading that completes K consecutive fast
\* readings received since the lock.
C34_RequalifyAfterTimeoutLock ==
  [][(currentState = "RUNNING_LOCKED" /\ enteredBy = "heartbeat_timeout"
        /\ currentState' = "RUNNING_UNLOCKED") =>
       /\ CallOf("updatePace")
       /\ ReadingKind(lastPace') = "fast"
       /\ FastBefore + 1 >= K
    ]_rvars

\* C35: the two consecutive counters are never both greater than 0, both are
\* 0 whenever the state is NOT_RUNNING, and both are 0 right after a
\* pace-driven transition.
C35_CountersInvariant ==
  /\ ~(consecutiveFastReadings > 0 /\ consecutiveSlowReadings > 0)
  /\ currentState = "NOT_RUNNING" =>
       consecutiveFastReadings = 0 /\ consecutiveSlowReadings = 0
  /\ (lastOp = "updatePace" /\ enteredBy = "pace_change" /\ streakLen = 0
        /\ currentState # "NOT_RUNNING") =>
       consecutiveFastReadings = 0 /\ consecutiveSlowReadings = 0

(***************************************************************************)
(* The pace calculator: PaceCalculator (packages/shared pace.ts, kept as   *)
(* unnamed/part_017) and its Swift port (unnamed/part_008), and the iOS    *)
(* app that feeds it: AppState (apps/ios/.../Models/AppState.swift).       *)
(* Samples lie on one meridian, so the haversine distance of two samples   *)
(* is the difference of their positions, in meters.  Timestamps are        *)
(* counted in ticks of 6 seconds.  A pace is kept exactly, as the two sums *)
(* of getCurrentPace: the pace is METERS_PER_MILE * dist / wspeed.         *)
(***************************************************************************)
MaxTimestamp == 2

MaxTotalDistance == 18

TICK_MS == 6000

WindowSizes == {1, 2}

Positions == {0, 3, 18, 400}

LocationSamples == [position : Positions, timestamp : 0 .. MaxTimestamp]

minDistanceThreshold == 5

maxTimeGap == 10000

\* minMovingSpeed, 0.5 m/s, in tenths of a meter per second.
minMovingSpeedTenths == 5

maxRealisticSpeed == 10

\* METERS_PER_MILE, 1609.344, is METERS_PER_MILE_NUM / METERS_PER_MILE_DEN.
METERS_PER_MILE_NUM == 201168

METERS_PER_MILE_DEN == 125

\* The null of getCurrentPace and of AppState.currentPace.
NullPace == [dist |-> 0, wspeed |-> 0]

\* A common multiple of the durations a segment can have (1 to 4 ticks), to
\* keep the quotients distance / duration exact.
TimeLcm == 12

VARIABLES windowSize, samples, speedSegments, totalDistance, given, calls,
          runState, currentPace, appTotalDistance, beyond

cvars == <<windowSize, samples, speedSegments, totalDistance, given, calls>>

avars == <<runState, currentPace, appTotalDistance, beyond>>

haversineDistance(a, b) ==
  IF a.position >= b.position THEN a.position - b.position
  ELSE b.position - a.position

\* pace < secs and pace > secs, for a pace that is not null.
PaceLess(pace, secs) ==
  METERS_PER_MILE_NUM * pace.dist < secs * METERS_PER_MILE_DEN * pace.wspeed

PaceMore(pace, secs) ==
  METERS_PER_MILE_NUM * pace.dist > secs * METERS_PER_MILE_DEN * pace.wspeed

\* The sums of getCurrentPace over the window, both multiplied by
\* TimeLcm * TICK_MS / 1000: speed * distance is distance^2 / duration.
RECURSIVE WeightedSpeed(_)
WeightedSpeed(segs) ==
  IF Len(segs) = 0 THEN 0
  ELSE Head(segs).distance * Head(segs).distance * (TimeLcm \div Head(segs).duration)
         + WeightedSpeed(Tail(segs))

RECURSIVE SegmentDistance(_)
SegmentDistance(segs) ==
  IF Len(segs) = 0 THEN 0
  ELSE Head(segs).distance * TimeLcm * (TICK_MS \div 1000)
         + SegmentDistance(Tail(segs))

getCurrentPace(segs) ==
  IF Len(segs) = 0 THEN NullPace
  ELSE IF SegmentDistance(segs) = 0 THEN NullPace
  ELSE IF 10 * WeightedSpeed(segs) < minMovingSpeedTenths * SegmentDistance(segs)
       THEN NullPace
  ELSE [dist |-> SegmentDistance(segs), wspeed |-> WeightedSpeed(segs)]

\* shift() while the array is longer than n.
RECURSIVE KeepLast(_, _)
KeepLast(seq, n) == IF Len(seq) > n THEN KeepLast(Tail(seq), n) ELSE seq

Realistic_Always(distance, duration) == TRUE

\* speed <= maxRealisticSpeed, the duration in ticks.
Realistic(distance, duration) ==
  distance * 1000 <= maxRealisticSpeed * duration * TICK_MS

\* The calculator after addSample(sample).
AfterAddSample(sample) ==
  LET hasLast == Len(samples) > 0
      lastSample == samples[Len(samples)]
      duration == sample.timestamp - lastSample.timestamp
      distance == haversineDistance(lastSample, sample)
      isReset == hasLast /\ duration * TICK_MS > maxTimeGap
      accepted == /\ hasLast
                  /\ distance >= minDistanceThreshold
                  /\ duration > 0
                  /\ Realistic(distance, duration)
      keptSamples == IF isReset THEN <<>> ELSE samples
      keptSegments == IF isReset THEN <<>> ELSE speedSegments
      keptDistance == IF isReset THEN 0 ELSE totalDistance
  IN [samples |-> KeepLast(Append(keptSamples, sample), windowSize + 1),
      speedSegments |->
        IF accepted
        THEN KeepLast(Append(keptSegments,
                             [distance |-> distance, duration |-> duration]),
                      windowSize)
        ELSE keptSegments,
      totalDistance |-> IF accepted THEN keptDistance + distance ELSE keptDistance]

CInit ==
  /\ windowSize \in WindowSizes
  /\ samples = <<>>
  /\ speedSegments = <<>>
  /\ totalDistance = 0
  /\ given = [position |-> 0, timestamp |-> 0]
  /\ calls = 0

AInit ==
  /\ runState = "NOT_RUNNING"
  /\ currentPace = NullPace
  /\ appTotalDistance = 0
  /\ beyond = 0

\* History: given is the sample of the last addSample, and every addSample
\* flips calls.
\* (The model follows a calculator up to the first sample that takes
\* totalDistance past MaxTotalDistance.)
addSample(sample) ==
  /\ totalDistance <= MaxTotalDistance
  /\ given' = sample
  /\ calls' = 1 - calls
  /\ samples' = AfterAddSample(sample).samples
  /\ speedSegments' = AfterAddSample(sample).speedSegments
  /\ totalDistance' = AfterAddSample(sample).totalDistance
  /\ UNCHANGED windowSize

reset ==
  /\ samples' = <<>>
  /\ speedSegments' = <<>>
  /\ totalDistance' = 0
  /\ UNCHANGED <<windowSize, given, calls>>

\* AppState.startRun, from the reset of the calculator on.
AppStartRun ==
  /\ runState = "NOT_RUNNING"
  /\ reset
  /\ appTotalDistance' = 0
  /\ currentPace' = NullPace
  /\ runState' = "RUNNING_LOCKED"
  /\ beyond' = 0

AppEndRun ==
  /\ runState # "NOT_RUNNING"
  /\ runState' = "NOT_RUNNING"
  /\ beyond' = 0
  /\ UNCHANGED <<cvars, currentPace, appTotalDistance>>

\* The run state after updateRunState(pace).
updateRunState(pace) ==
  IF runState = "RUNNING_LOCKED" /\ PaceLess(pace, 600 - 15)
  THEN "RUNNING_UNLOCKED"
  ELSE IF runState = "RUNNING_UNLOCKED" /\ PaceMore(pace, 600 + 15)
  THEN "RUNNING_LOCKED"
  ELSE runState

\* History: the readings beyond the hysteresis bound of the current state
\* that the app has received in a row, counted up to 3.
BeyondBound(pace) ==
  \/ runState = "RUNNING_LOCKED" /\ PaceLess(pace, PACE_THRESHOLD_SECONDS - HYSTERESIS_BUFFER)
  \/ runState = "RUNNING_UNLOCKED" /\ PaceMore(pace, PACE_THRESHOLD_SECONDS + HYSTERESIS_BUFFER)

handleLocationUpdate(location) ==
  /\ runState # "NOT_RUNNING"
  /\ addSample(location)
  /\ LET pace == getCurrentPace(AfterAddSample(location).speedSegments)
     IN IF pace # NullPace
        THEN /\ currentPace' = pace
             /\ appTotalDistance' = AfterAddSample(location).totalDistance
             /\ runState' = updateRunState(pace)
             /\ beyond' = IF runState' # runState \/ ~BeyondBound(pace) THEN 0
                          ELSE IF beyond < 3 THEN beyond + 1 ELSE 3
        ELSE UNCHANGED <<currentPace, appTotalDistance, runState, beyond>>


\* ------------------------------------------- the calculator's contract
\* The call of this step is addSample, and the calculator holds a previous
\* sample.
NextSample == calls' # calls /\ Len(samples) > 0

PreviousSample == samples[Len(samples)]

TicksSincePrevious == given'.timestamp - PreviousSample.timestamp

\* The speed implied by the sample of this step is above maxRealisticSpeed.
ImpliedJump ==
  /\ TicksSincePrevious > 0
  /\ haversineDistance(PreviousSample, given') * 1000
       > maxRealisticSpeed * TicksSincePrevious * TICK_MS

DEFAULT_CONSECUTIVE_READINGS == 3

\* C24: three consecutive readings beyond the hysteresis bound are required
\* to change between RUNNING_LOCKED and RUNNING_UNLOCKED: the run state of
\* the iOS app does not flip on a first or a second such reading.
C24_ThreeReadingsToFlip ==
  [][(runState # "NOT_RUNNING" /\ runState' # "NOT_RUNNING" /\ runState' # runState)
       => beyond + 1 >= DEFAULT_CONSECUTIVE_READINGS
    ]_avars

\* C27 as stated: a sample whose implied speed from the previous sample
\* exceeds maxRealisticSpeed contributes no segment: segment window, current
\* pace and totalDistance are the same after addSample as before it.
C27_Original ==
  [][(NextSample /\ ImpliedJump) =>
       /\ UNCHANGED <<speedSegments, totalDistance>>
       /\ getCurrentPace(speedSegments') = getCurrentPace(speedSegments)
    ]_cvars

\* C27, amended: the same for a sample that arrives within maxTimeGap of the
\* previous sample (a later one resets the calculator first).
C27_Amended ==
  [][(NextSample /\ ImpliedJump /\ TicksSincePrevious * TICK_MS <= maxTimeGap) =>
       /\ UNCHANGED <<speedSegments, totalDistance>>
       /\ getCurrentPace(speedSegments') = getCurrentPace(speedSegments)
    ]_cvars

C27_Witness ==
  /\ Len(samples) >= 2
  /\ Len(speedSegments) >= 1
  /\ totalDistance > 0
  /\ given = samples[Len(samples)]
  /\ LET previous == samples[Len(samples) - 1]
         ticks == given.timestamp - previous.timestamp
     IN /\ ticks > 0
        /\ ticks * TICK_MS <= maxTimeGap
        /\ haversineDistance(previous, given) * 1000
             > maxRealisticSpeed * ticks * TICK_MS

\* C28: a sample that arrives more than maxTimeGap after the previous sample
\* resets the calculator: right after that addSample the window is empty,
\* totalDistance is 0 and getCurrentPace is null, at every distance of the
\* sample from the previous one.
C28_TimeGapResetsTheWindow ==
  [][(NextSample /\ TicksSincePrevious * TICK_MS > maxTimeGap) =>
       /\ speedSegments' = <<>>
       /\ totalDistance' = 0
       /\ getCurrentPace(speedSegments') = NullPace
    ]_cvars

\* C29: a sample whose timestamp is not later than the previous sample's
\* adds no segment, leaves pace and totalDistance unchanged, and does not
\* become the sample from which the next segment is measured.
C29_StaleSampleIsDropped ==
  [][(NextSample /\ TicksSincePrevious <= 0) =>
       /\ UNCHANGED <<speedSegments, totalDistance>>
       /\ getCurrentPace(speedSegments') = getCurrentPace(speedSegments)
       /\ Len(samples') > 0
       /\ samples'[Len(samples')] = PreviousSample
    ]_cvars

\* C30: getCurrentPace is null while the window holds no segment, and a
\* location update of a run that leaves the pace null does not leave the
\* app in RUNNING_UNLOCKED.
C30_NullPaceDoesNotQualify ==
  /\ [](Len(speedSegments) = 0 => getCurrentPace(speedSegments) = NullPace)
  /\ [][(calls' # calls /\ runState # "NOT_RUNNING"
           /\ getCurrentPace(speedSegments') = NullPace) =>
          runState' # "RUNNING_UNLOCKED"
       ]_<<cvars, avars>>

\* C36: a sample rejected by the noise filters (implied speed above
\* maxRealisticSpeed, or distance below minDistanceThreshold) does not become
\* the position from which the next segment is measured: the reference
\* position stays that of the previous sample.
C36_RejectedSampleLeavesReference ==
  [][(/\ NextSample
      /\ TicksSincePrevious > 0
      /\ TicksSincePrevious * TICK_MS <= maxTimeGap
      /\ \/ ImpliedJump
         \/ haversineDistance(PreviousSample, given') < minDistanceThreshold) =>
       /\ Len(samples') > 0
       /\ samples'[Len(samples')].position = PreviousSample.position
    ]_cvars

(***************************************************************************)
(* The API server's run sessions: the heartbeat route (unnamed/part_002),  *)
(* the heartbeat checker (services/api/src/services/heartbeat-checker.ts), *)
(* the in-memory stores it reads (services/api/src/middleware/auth.ts) and *)
(* the route that disconnects GitHub (services/api/src/routes/auth.ts).    *)
(* A handler runs without interruption up to its first await; the ruleset  *)
(* requests of updateGitHubRulesets and of blockUserWrites are all issued  *)
(* before that await.  lastHeartbeat is kept as its age, NOW -             *)
(* lastHeartbeat, in ticks of BEAT_TICK_MS, and stops growing at           *)
(* MaxBeatAge.  One run of the checker is followed at a time; checker.run   *)
(* tells one run from the next and checker.locked holds the sessions the   *)
(* run has acted on.                                                       *)
(***************************************************************************)
MaxSessions == 2

MaxBeatAge == 2

BEAT_TICK_MS == 20000

HEARTBEAT_TIMEOUT_MS_DEFAULT == 30000

Accounts == {"u1", "u2"}

Devices == {"d1", "d2"}

\* req.user.id of a request of the device (the JWT of requireAuth).
DeviceUser == [d \in Devices |-> IF d = "d1" THEN "u1" ELSE "u2"]

\* The rows of repoDb.
GatedRepositories ==
  [g1 |-> [userId |-> "u1", rulesetId |-> 11, gatingEnabled |-> TRUE],
   g2 |-> [userId |-> "u1", rulesetId |-> 12, gatingEnabled |-> FALSE],
   g3 |-> [userId |-> "u2", rulesetId |-> 13, gatingEnabled |-> TRUE]]

VARIABLES sessions, accessToken, requested, checker

hvars == <<sessions, accessToken, requested, checker>>

HInit ==
  /\ sessions = <<>>
  /\ accessToken = [u \in Accounts |-> TRUE]
  /\ requested = [g \in DOMAIN GatedRepositories |-> "none"]
  /\ checker = [pc |-> "idle", todo |-> <<>>, locked |-> {}, run |-> 0]

\* sessionDb.findActiveByDeviceId: the index of the session, 0 for undefined.
findActiveByDeviceId(deviceId) ==
  LET found == {i \in 1 .. Len(sessions) :
                  sessions[i].deviceId = deviceId /\ ~sessions[i].endedAt}
  IN IF found = {} THEN 0 ELSE CHOOSE i \in found : \A j \in found : i <= j

\* The last request for each ruleset after updateGitHubRulesets(userId,
\* allowWrites); blockUserWrites(userId) is the same with allowWrites false.
updateGitHubRulesets(userId, allowWrites) ==
  [g \in DOMAIN GatedRepositories |->
     IF /\ accessToken[userId]
        /\ GatedRepositories[g].userId = userId
        /\ GatedRepositories[g].rulesetId # 0
        /\ GatedRepositories[g].gatingEnabled
     THEN (IF allowWrites THEN "allow" ELSE "block")
     ELSE requested[g]]

\* router.post('/'): a heartbeat of the device with the run state it reports.
Heartbeat(deviceId, reported) ==
  LET session == findActiveByDeviceId(deviceId)
      isRunning == reported # "NOT_RUNNING"
  IN /\ IF isRunning /\ session = 0
        THEN /\ Len(sessions) < MaxSessions
             /\ sessions' = Append(sessions,
                                   [userId |-> DeviceUser[deviceId],
                                    deviceId |-> deviceId,
                                    lastHeartbeat |-> 0,
                                    currentState |-> reported,
                                    endedAt |-> FALSE])
        ELSE IF session # 0
        THEN sessions' = [sessions EXCEPT ![session] =
                            [@ EXCEPT !.lastHeartbeat = 0,
                                      !.currentState = reported,
                                      !.endedAt = ~isRunning]]
        ELSE UNCHANGED sessions
     /\ requested' = updateGitHubRulesets(DeviceUser[deviceId],
                                          reported = "RUNNING_UNLOCKED")
     /\ UNCHANGED <<accessToken, checker>>

\* router.delete('/github').
DisconnectGithub(userId) ==
  /\ accessToken[userId]
  /\ accessToken' = [accessToken EXCEPT ![userId] = FALSE]
  /\ UNCHANGED <<sessions, requested, checker>>

\* now - session.lastHeartbeat > config.heartbeat.timeoutMs
IsStale(age) == age * BEAT_TICK_MS > HEARTBEAT_TIMEOUT_MS_DEFAULT

\* The sessions of getActiveSessionsForHeartbeatCheck on which the loop of
\* checkStaleHeartbeats acts, as it read them.
StaleUnlocked ==
  SelectSeq([i \in 1 .. Len(sessions) |->
               [id |-> i, session |-> sessions[i]]],
            LAMBDA s : /\ ~s.session.endedAt
                       /\ IsStale(s.session.lastHeartbeat)
                       /\ s.session.currentState = "RUNNING_UNLOCKED")

\* blockUserWrites(userId) sends a request, so that its await gives way to
\* other handlers: the user has a token and a repository with a ruleset and
\* gatingEnabled.  Otherwise it returns at once and the loop goes on.
SendsRequest(userId) ==
  /\ accessToken[userId]
  /\ \E g \in DOMAIN GatedRepositories :
       /\ GatedRepositories[g].userId = userId
       /\ GatedRepositories[g].rulesetId # 0
       /\ GatedRepositories[g].gatingEnabled

\* The loop of checkStaleHeartbeats over the sessions it read (todo), from
\* the stored sessions ss, up to an await of blockUserWrites that waits for
\* a request (blocked is then the user of the request) or to the end of the
\* loop (blocked is "none").
RECURSIVE EnforceFailClosed(_, _, _)
EnforceFailClosed(ss, todo, lockedBefore) ==
  IF Len(todo) = 0
  THEN [sessions |-> ss, todo |-> todo, locked |-> lockedBefore, blocked |-> "none"]
  ELSE LET s == Head(todo)
           updated == [ss EXCEPT ![s.id] =
                         [@ EXCEPT !.currentState = "RUNNING_LOCKED",
                                   !.lastHeartbeat = s.session.lastHeartbeat]]
       IN IF SendsRequest(s.session.userId)
          THEN [sessions |-> updated, todo |-> Tail(todo),
                locked |-> lockedBefore \cup {s.id}, blocked |-> s.session.userId]
          ELSE EnforceFailClosed(updated, Tail(todo), lockedBefore \cup {s.id})

\* The checker runs from the sessions of todo to its next await or its end.
CheckerRuns(todo, lockedBefore, run) ==
  LET after == EnforceFailClosed(sessions, todo, lockedBefore)
  IN /\ sessions' = after.sessions
     /\ requested' = IF after.blocked = "none" THEN requested
                     ELSE updateGitHubRulesets(after.blocked, FALSE)
     /\ checker' = [pc |-> IF after.blocked = "none" THEN "idle" ELSE "await",
                    todo |-> after.todo, locked |-> after.locked, run |-> run]
     /\ UNCHANGED accessToken

\* The callback of setInterval: checkStaleHeartbeats, up to its first await.
checkStaleHeartbeats ==
  /\ checker.pc = "idle"
  /\ CheckerRuns(StaleUnlocked, {}, 1 - checker.run)

\* The await of blockUserWrites returns: the loop goes on to its next await
\* or to its end.
BlockUserWritesReturns ==
  /\ checker.pc = "await"
  /\ CheckerRuns(checker.todo, checker.locked, checker.run)

\* router.post('/start').
StartSession(deviceId) ==
  /\ findActiveByDeviceId(deviceId) = 0
  /\ Len(sessions) < MaxSessions
  /\ sessions' = Append(sessions,
                        [userId |-> DeviceUser[deviceId],
                         deviceId |-> deviceId,
                         lastHeartbeat |-> 0,
                         currentState |-> "RUNNING_LOCKED",
                         endedAt |-> FALSE])
  /\ requested' = updateGitHubRulesets(DeviceUser[deviceId], FALSE)
  /\ UNCHANGED <<accessToken, checker>>

\* router.post('/end').
EndSession(deviceId) ==
  /\ findActiveByDeviceId(deviceId) # 0
  /\ sessions' = [sessions EXCEPT ![findActiveByDeviceId(deviceId)] =
                    [@ EXCEPT !.lastHeartbeat = 0,
                              !.currentState = "NOT_RUNNING",
                              !.endedAt = TRUE]]
  /\ requested' = updateGitHubRulesets(DeviceUser[deviceId], FALSE)
  /\ UNCHANGED <<accessToken, checker>>

\* One tick of time passes.
HTick ==
  /\ \E i \in 1 .. Len(sessions) :
       ~sessions[i].endedAt /\ sessions[i].lastHeartbeat < MaxBeatAge
  /\ sessions' = [i \in 1 .. Len(sessions) |->
                    [sessions[i] EXCEPT !.lastHeartbeat =
                                        IF @ < MaxBeatAge THEN @ + 1 ELSE @]]
  /\ checker' = [checker EXCEPT !.todo =
                   [i \in 1 .. Len(checker.todo) |->
                      [checker.todo[i] EXCEPT !.session.lastHeartbeat =
                                               IF @ < MaxBeatAge THEN @ + 1 ELSE @]]]
  /\ UNCHANGED <<accessToken, requested>>

\* ------------------------------------------------- the server's contract
\* The checker acts on session i in this step.
EnforcedOn(i) ==
  /\ i \in checker'.locked
  /\ checker'.run # checker.run \/ i \notin checker.locked

GatedBy(userId) ==
  {g \in DOMAIN GatedRepositories :
     /\ GatedRepositories[g].userId = userId
     /\ GatedRepositories[g].rulesetId # 0
     /\ GatedRepositories[g].gatingEnabled}

NeedsLock(i) ==
  /\ ~sessions[i].endedAt
  /\ sessions[i].currentState = "RUNNING_UNLOCKED"
  /\ sessions[i].lastHeartbeat * BEAT_TICK_MS > HEARTBEAT_TIMEOUT_MS_DEFAULT

\* C26: every active session that is RUNNING_UNLOCKED with a last heartbeat
\* older than the timeout when a run of the heartbeat checker starts is taken
\* up by that run, and when the run acts on a session it sets it to
\* RUNNING_LOCKED and issues a block-writes request for every gated
\* repository of the session's user.
C26_StaleSessionIsLockedAndBlocked ==
  /\ [][(checker.pc = "idle" /\ checker' # checker) =>
          \A i \in 1 .. Len(sessions) :
             NeedsLock(i) =>
               \/ i \in checker'.locked
               \/ \E n \in 1 .. Len(checker'.todo) : checker'.todo[n].id = i
       ]_hvars
  /\ [][\A i \in 1 .. Len(sessions) :
          EnforcedOn(i) =>
            /\ sessions'[i].currentState = "RUNNING_LOCKED"
            /\ \A g \in GatedBy(sessions[i].userId) : requested'[g] = "block"
       ]_hvars

\* C39: the heartbeat checker locks only sessions that are stale at the
\* moment it locks them: when the checker goes on after the await of a
\* block-writes call, a session that is active, RUNNING_UNLOCKED and has a
\* heartbeat within the timeout (a fresh heartbeat was processed during the
\* await) is left as it is: not set to RUNNING_LOCKED, its lastHeartbeat not
\* overwritten, and no request made for the rulesets of its user.
C39_CheckerLocksOnlyStaleSessions ==
  [][(checker.pc = "await"
        /\ (checker'.pc = "idle" \/ checker'.locked # checker.locked)) =>
       \A i \in 1 .. Len(sessions) :
          ( /\ ~sessions[i].endedAt
            /\ sessions[i].currentState = "RUNNING_UNLOCKED"
            /\ sessions[i].lastHeartbeat * BEAT_TICK_MS
                 <= HEARTBEAT_TIMEOUT_MS_DEFAULT ) =>
            /\ sessions'[i] = sessions[i]
            /\ \A g \in GatedBy(sessions[i].userId) : requested'[g] = requested[g]
    ]_hvars

\* C40: the server-side write gate follows the reported run state: after a
\* heartbeat is processed, writes are left requested to be allowed only if
\* the reported state is RUNNING_UNLOCKED (and they are requested to be
\* allowed if it is and the user has GitHub connected); an explicit start
\* creates the session in RUNNING_LOCKED and an explicit start or end leaves
\* no ruleset of the user requested to allow; and a device never has more
\* than one session without endedAt.
C40_WriteGateFollowsRunState ==
  /\ [][\A d \in Devices :
          LET before == {i \in 1 .. Len(sessions) :
                           sessions[i].deviceId = d /\ ~sessions[i].endedAt}
              after == {i \in 1 .. Len(sessions') :
                          sessions'[i].deviceId = d /\ ~sessions'[i].endedAt}
              created == Len(sessions') > Len(sessions)
                           /\ sessions'[Len(sessions')].deviceId = d
              touched == \E i \in before :
                           /\ sessions'[i].lastHeartbeat = 0
                           /\ sessions'[i] # sessions[i]
                           /\ checker' = checker
              reported == IF created THEN sessions'[Len(sessions')].currentState
                          ELSE sessions'[CHOOSE i \in before : TRUE].currentState
          IN (created \/ touched) =>
               \A g \in GatedBy(DeviceUser[d]) :
                  IF reported = "RUNNING_UNLOCKED"
                  THEN accessToken[DeviceUser[d]] => requested'[g] = "allow"
                  ELSE requested'[g] # "allow"
       ]_hvars
  /\ [](\A d \in Devices :
          Cardinality({i \in 1 .. Len(sessions) :
                         sessions[i].deviceId = d /\ ~sessions[i].endedAt}) <= 1)

(***************************************************************************)
(* The API's workout routes (services/api/src/routes/workout.ts) for one   *)
(* user: workout sessions, ingestion of HR samples and the HR status row.  *)
(* Every prisma call is awaited, so a handler runs one call at a time and  *)
(* the calls of requests in flight interleave.  expiresAt is kept as the   *)
(* time left to it, expiresAt - now, in ticks of W_TICK_S seconds, 0 once  *)
(* it is not later than now.  A session row carries beforeStop (it existed *)
(* when a stop completed), the status row carries the session of the       *)
(* sample that wrote it, and sinceIngest counts the ticks since the last   *)
(* write of a sample to the status row.  The hrSample rows are read by no  *)
(* route followed here, so hrSample.create is taken together with the read *)
(* of the profile before it.                                               *)
(***************************************************************************)
MaxWorkouts == 2

HR_TTL_SECONDS == 15

\* One tick of time is one TTL.
W_TICK_S == HR_TTL_SECONDS

DEFAULT_HR_THRESHOLD == 100

MIN_BPM == 30

MAX_BPM == 250

TtlTicks == HR_TTL_SECONDS \div W_TICK_S

Handlers == {"h1", "h2"}

\* bpm of a request: below the accepted range, just below and at the
\* threshold of the profile (both above the default threshold).
Bpms == {25, 119, 120}

\* hrThresholdBpm of the user's profile; 0 stands for no profile row.
HrProfiles == {0, 120}

VARIABLES workoutSession, hrStatus, hrThresholdBpm, inflight, sinceIngest

wvars == <<workoutSession, hrStatus, hrThresholdBpm, inflight, sinceIngest>>

IdleRequest ==
  [route |-> "none", pc |-> "idle", session_id |-> 0, bpm |-> 0,
   threshold |-> 0, expiresIn |-> 0, status |-> 0, hr_ok |-> FALSE]

NoHrStatus ==
  [exists |-> FALSE, bpm |-> 0, thresholdBpm |-> 0, hrOk |-> FALSE,
   expiresIn |-> 0, sessionId |-> 0]

WInit ==
  /\ workoutSession = <<>>
  /\ hrStatus = NoHrStatus
  /\ hrThresholdBpm \in HrProfiles
  /\ inflight = [h \in Handlers |-> IdleRequest]
  /\ sinceIngest = 0

\* prisma.workoutSession.updateMany({where: {userId, active: true},
\*                                   data: {active: false, ...}})
EndActiveSessions ==
  [i \in 1 .. Len(workoutSession) |-> [workoutSession[i] EXCEPT !.active = FALSE]]

Responded(h, status) ==
  [inflight EXCEPT ![h] = [IdleRequest EXCEPT !.pc = "done", !.status = status,
                                               !.route = inflight[h].route]]

\* workout.post('/start')
workoutStart(h) ==
  \/ /\ inflight[h].pc \in {"idle", "done"}
     /\ inflight' = [inflight EXCEPT ![h] =
                       [IdleRequest EXCEPT !.route = "start", !.pc = "endActive"]]
     /\ UNCHANGED <<workoutSession, hrStatus, hrThresholdBpm, sinceIngest>>
  \/ /\ inflight[h].route = "start" /\ inflight[h].pc = "endActive"
     /\ workoutSession' = EndActiveSessions
     /\ inflight' = [inflight EXCEPT ![h].pc = "create"]
     /\ UNCHANGED <<hrStatus, hrThresholdBpm, sinceIngest>>
  \/ /\ inflight[h].route = "start" /\ inflight[h].pc = "create"
     /\ Len(workoutSession) < MaxWorkouts
     /\ workoutSession' = Append(workoutSession,
                                 [active |-> TRUE, beforeStop |-> FALSE])
     /\ inflight' = Responded(h, 201)
     /\ UNCHANGED <<hrStatus, hrThresholdBpm, sinceIngest>>

\* workout.post('/stop')
workoutStop(h) ==
  \/ /\ inflight[h].pc \in {"idle", "done"}
     /\ inflight' = [inflight EXCEPT ![h] =
                       [IdleRequest EXCEPT !.route = "stop", !.pc = "endActive"]]
     /\ UNCHANGED <<workoutSession, hrStatus, hrThresholdBpm, sinceIngest>>
  \/ /\ inflight[h].route = "stop" /\ inflight[h].pc = "endActive"
     /\ workoutSession' = EndActiveSessions
     /\ inflight' = IF \E i \in 1 .. Len(workoutSession) : workoutSession[i].active
                    THEN [inflight EXCEPT ![h].pc = "expire"]
                    ELSE Responded(h, 404)
     /\ UNCHANGED <<hrStatus, hrThresholdBpm, sinceIngest>>
  \/ /\ inflight[h].route = "stop" /\ inflight[h].pc = "expire"
     /\ hrStatus' = IF hrStatus.exists
                    THEN [hrStatus EXCEPT !.hrOk = FALSE, !.expiresIn = 0]
                    ELSE hrStatus
     /\ workoutSession' = [i \in 1 .. Len(workoutSession) |->
                             [workoutSession[i] EXCEPT !.beforeStop = TRUE]]
     /\ inflight' = Responded(h, 200)
     /\ UNCHANGED <<hrThresholdBpm, sinceIngest>>

Qualifies_Above(bpm, threshold) == bpm > threshold

\* const hrOk = body.bpm >= threshold
Qualifies(bpm, threshold) == bpm >= threshold

\* workout.post('/hr')
workoutHr(h) ==
  \/ /\ inflight[h].pc \in {"idle", "done"}
     /\ \E bpm \in Bpms, session_id \in 1 .. MaxWorkouts :
          inflight' =
            IF bpm < MIN_BPM \/ bpm > MAX_BPM
            THEN [inflight EXCEPT ![h] =
                    [IdleRequest EXCEPT !.route = "hr", !.pc = "done", !.status = 400]]
            ELSE [inflight EXCEPT ![h] =
                    [IdleRequest EXCEPT !.route = "hr", !.pc = "findSession",
                                        !.bpm = bpm, !.session_id = session_id]]
     /\ UNCHANGED <<workoutSession, hrStatus, hrThresholdBpm, sinceIngest>>
  \/ /\ inflight[h].route = "hr" /\ inflight[h].pc = "findSession"
     /\ inflight' = IF /\ inflight[h].session_id <= Len(workoutSession)
                       /\ workoutSession[inflight[h].session_id].active
                    THEN [inflight EXCEPT ![h].pc = "findProfile"]
                    ELSE Responded(h, 404)
     /\ UNCHANGED <<workoutSession, hrStatus, hrThresholdBpm, sinceIngest>>
  \/ /\ inflight[h].route = "hr" /\ inflight[h].pc = "findProfile"
     /\ LET threshold == IF hrThresholdBpm = 0 THEN DEFAULT_HR_THRESHOLD
                         ELSE hrThresholdBpm
        IN inflight' = [inflight EXCEPT ![h].pc = "upsert",
                                        ![h].threshold = threshold,
                                        ![h].expiresIn = TtlTicks,
                                        ![h].hr_ok = Qualifies(inflight[h].bpm, threshold)]
     /\ UNCHANGED <<workoutSession, hrStatus, hrThresholdBpm, sinceIngest>>
  \/ /\ inflight[h].route = "hr" /\ inflight[h].pc = "upsert"
     /\ hrStatus' = [exists |-> TRUE, bpm |-> inflight[h].bpm,
                     thresholdBpm |-> inflight[h].threshold,
                     hrOk |-> inflight[h].hr_ok,
                     expiresIn |-> inflight[h].expiresIn,
                     sessionId |-> inflight[h].session_id]
     /\ sinceIngest' = 0
     /\ inflight' = [inflight EXCEPT ![h] =
                       [IdleRequest EXCEPT !.route = "hr", !.pc = "done",
                                           !.status = 200,
                                           !.hr_ok = inflight[h].hr_ok]]
     /\ UNCHANGED <<workoutSession, hrThresholdBpm>>

getStatus_IgnoresExpiry == hrStatus.exists /\ hrStatus.hrOk

\* workout.get('/status'): hr_ok, which is tools_unlocked too.
getStatus ==
  IF ~hrStatus.exists THEN FALSE
  ELSE LET isExpired == hrStatus.expiresIn <= 0
       IN ~isExpired /\ hrStatus.hrOk

\* W_TICK_S seconds pass.
WTick ==
  /\ \/ sinceIngest < TtlTicks
     \/ hrStatus.expiresIn > 0
     \/ \E h \in Handlers : inflight[h].expiresIn > 0
  /\ sinceIngest' = IF sinceIngest < TtlTicks THEN sinceIngest + 1 ELSE sinceIngest
  /\ hrStatus' = [hrStatus EXCEPT !.expiresIn = IF @ > 0 THEN @ - 1 ELSE 0]
  /\ inflight' = [h \in Handlers |->
                    [inflight[h] EXCEPT !.expiresIn = IF @ > 0 THEN @ - 1 ELSE 0]]
  /\ UNCHANGED <<workoutSession, hrThresholdBpm>>

\* ------------------------------------------------- the routes' contract
\* The step is the upsert of the status row by the /hr request of h.
Ingests(h) == inflight[h].route = "hr" /\ inflight[h].pc = "upsert" /\ inflight'[h].pc = "done"

\* C31: the immediate-threshold policy is memoryless: for every accepted HR
\* sample the stored hrOk and the returned hr_ok (tools_unlocked) are
\* bpm >= threshold for that sample alone, whatever the status row held
\* before; bpm equal to the threshold qualifies.
C31_ImmediateThresholdIsMemoryless ==
  [][\A h \in Handlers :
       Ingests(h) =>
         LET threshold == IF hrThresholdBpm = 0 THEN DEFAULT_HR_THRESHOLD
                          ELSE hrThresholdBpm
         IN /\ hrStatus'.hrOk = (inflight[h].bpm >= threshold)
            /\ inflight'[h].hr_ok = (inflight[h].bpm >= threshold)
            /\ inflight'[h].status = 200
    ]_wvars

C31_Witness ==
  /\ hrThresholdBpm = 120
  /\ hrStatus.exists /\ hrStatus.bpm = 120 /\ hrStatus.hrOk
  /\ \E h \in Handlers :
       inflight[h].route = "hr" /\ inflight[h].pc = "done" /\ inflight[h].hr_ok

\* C32: the HR status is fail-closed: GET /workout/status reports hr_ok
\* (tools_unlocked) true only if the user has a status row whose expiresAt
\* is later than now and whose hrOk is true; without a row, or once the TTL
\* has passed since the last sample was written to the row, it reports
\* false.
C32_HrStatusFailClosed ==
  /\ getStatus => (hrStatus.exists /\ hrStatus.expiresIn > 0 /\ hrStatus.hrOk)
  /\ ~hrStatus.exists => ~getStatus
  /\ sinceIngest * W_TICK_S >= HR_TTL_SECONDS => ~getStatus

C32_Witness ==
  /\ hrStatus.exists /\ hrStatus.hrOk /\ hrStatus.expiresIn = 0
  /\ sinceIngest * W_TICK_S >= HR_TTL_SECONDS
  /\ \E i \in 1 .. Len(workoutSession) : workoutSession[i].active
  /\ ~getStatus

\* C37: stop is final for the HR status: once a POST /workout/stop has
\* completed, GET /workout/status reports tools_unlocked false until a sample
\* is ingested for a session started after it.
C37_StopIsFinal ==
  getStatus => ~workoutSession[hrStatus.sessionId].beforeStop

\* C38: a user has at most one active workout session once all requests
\* have completed.
C38_AtMostOneActiveSession ==
  (\A h \in Handlers : inflight[h].pc \in {"idle", "done"}) =>
    Cardinality({i \in 1 .. Len(workoutSession) : workoutSession[i].active}) <= 1

(***************************************************************************)
(* The specifications.  Each follows one component; the variables of the   *)
(* other components stay in a fixed state of theirs.                       *)
(***************************************************************************)
vars == <<vvars, pvars, rvars, cvars, avars, hvars, wvars>>

VIdle == VInit /\ variant = "bootstrap" /\ now = 1

PIdle ==
  /\ PInit
  /\ pvariant = "atomic"
  /\ gate_repo = [r \in Repos |-> "inactive"]
  /\ signerPrivateKey = "key"
  /\ github = "ok"

RIdle == RInit /\ smConfig.consecutiveReadingsRequired = 1

CIdle == CInit /\ windowSize = 1

WIdle == WInit /\ hrThresholdBpm = 0

VNext ==
  \/ CheckTools /\ UNCHANGED <<pvars, rvars, cvars, avars, hvars, wvars>>
  \/ ReadConfig /\ UNCHANGED <<pvars, rvars, cvars, avars, hvars, wvars>>
  \/ ValidateConfig /\ UNCHANGED <<pvars, rvars, cvars, avars, hvars, wvars>>
  \/ FetchSignal /\ UNCHANGED <<pvars, rvars, cvars, avars, hvars, wvars>>
  \/ ExtractFields /\ UNCHANGED <<pvars, rvars, cvars, avars, hvars, wvars>>
  \/ ValidatePayload /\ UNCHANGED <<pvars, rvars, cvars, avars, hvars, wvars>>
  \/ CheckUserKey /\ UNCHANGED <<pvars, rvars, cvars, avars, hvars, wvars>>
  \/ CheckExpiry /\ UNCHANGED <<pvars, rvars, cvars, avars, hvars, wvars>>
  \/ PrepareVerify /\ UNCHANGED <<pvars, rvars, cvars, avars, hvars, wvars>>
  \/ VerifySignature /\ UNCHANGED <<pvars, rvars, cvars, avars, hvars, wvars>>
  \/ CheckHrOk /\ UNCHANGED <<pvars, rvars, cvars, avars, hvars, wvars>>

InitVerifier == VInit /\ PIdle /\ RIdle /\ CIdle /\ AInit /\ HInit /\ WIdle

SpecVerifier == InitVerifier /\ [][VNext]_vars

PNext ==
  \/ (\E p \in Procs : Invoke(p)) /\ UNCHANGED <<vvars, rvars, cvars, avars, hvars, wvars>>
  \/ (\E p \in Procs : AtomicClaim(p)) /\ UNCHANGED <<vvars, rvars, cvars, avars, hvars, wvars>>
  \/ (\E p \in Procs : SelectDebounce(p)) /\ UNCHANGED <<vvars, rvars, cvars, avars, hvars, wvars>>
  \/ (\E p \in Procs : FindGateRepos(p)) /\ UNCHANGED <<vvars, rvars, cvars, avars, hvars, wvars>>
  \/ (\E p \in Procs : SignPayload(p)) /\ UNCHANGED <<vvars, rvars, cvars, avars, hvars, wvars>>
  \/ (\E p \in Procs : UpdateRepo(p)) /\ UNCHANGED <<vvars, rvars, cvars, avars, hvars, wvars>>
  \/ (\E p \in Procs : StampTimestamp(p)) /\ UNCHANGED <<vvars, rvars, cvars, avars, hvars, wvars>>
  \/ Recover /\ UNCHANGED <<vvars, rvars, cvars, avars, hvars, wvars>>
  \/ Tick /\ UNCHANGED <<vvars, rvars, cvars, avars, hvars, wvars>>

InitPublisher == PInit /\ VIdle /\ RIdle /\ CIdle /\ AInit /\ HInit /\ WIdle

SpecPublisher == InitPublisher /\ [][PNext]_vars

\* Samples keep arriving (every process invokes the function again and
\* again), every await of an invocation completes, time passes and GitHub
\* becomes reachable again.
PFairness ==
  /\ \A p \in Procs :
       /\ WF_vars(Invoke(p) /\ UNCHANGED <<vvars, rvars, cvars, avars, hvars, wvars>>)
       /\ WF_vars(AtomicClaim(p) /\ UNCHANGED <<vvars, rvars, cvars, avars, hvars, wvars>>)
       /\ WF_vars(SelectDebounce(p) /\ UNCHANGED <<vvars, rvars, cvars, avars, hvars, wvars>>)
       /\ WF_vars(FindGateRepos(p) /\ UNCHANGED <<vvars, rvars, cvars, avars, hvars, wvars>>)
       /\ WF_vars(SignPayload(p) /\ UNCHANGED <<vvars, rvars, cvars, avars, hvars, wvars>>)
       /\ WF_vars(UpdateRepo(p) /\ UNCHANGED <<vvars, rvars, cvars, avars, hvars, wvars>>)
       /\ WF_vars(StampTimestamp(p) /\ UNCHANGED <<vvars, rvars, cvars, avars, hvars, wvars>>)
  /\ WF_vars(Recover /\ UNCHANGED <<vvars, rvars, cvars, avars, hvars, wvars>>)
  /\ WF_vars(Tick /\ UNCHANGED <<vvars, rvars, cvars, avars, hvars, wvars>>)

SpecPublisherLive == InitPublisher /\ [][PNext]_vars /\ PFairness

RNext ==
  \/ startRun /\ UNCHANGED <<vvars, pvars, cvars, avars, hvars, wvars>>
  \/ endRun /\ UNCHANGED <<vvars, pvars, cvars, avars, hvars, wvars>>
  \/ (\E pace \in Paces : updatePace(pace)) /\ UNCHANGED <<vvars, pvars, cvars, avars, hvars, wvars>>
  \/ (\E lockReason \in {"heartbeat_timeout", "run_ended"} : forceLock(lockReason))
       /\ UNCHANGED <<vvars, pvars, cvars, avars, hvars, wvars>>
  \/ TimeoutCheck /\ UNCHANGED <<vvars, pvars, cvars, avars, hvars, wvars>>
  \/ destroy /\ UNCHANGED <<vvars, pvars, cvars, avars, hvars, wvars>>
  \/ RTick /\ UNCHANGED <<vvars, pvars, cvars, avars, hvars, wvars>>

\* The timer of setInterval keeps firing while it is set, and time passes.
RFairness ==
  /\ WF_vars(TimeoutCheck /\ UNCHANGED <<vvars, pvars, cvars, avars, hvars, wvars>>)
  /\ WF_vars(RTick /\ UNCHANGED <<vvars, pvars, cvars, avars, hvars, wvars>>)

InitRunState == RInit /\ VIdle /\ PIdle /\ CIdle /\ AInit /\ HInit /\ WIdle

SpecRunState == InitRunState /\ [][RNext]_vars

SpecRunStateLive == InitRunState /\ [][RNext]_vars /\ RFairness

ENext ==
  \/ RNext
  \/ (\E listener \in Listeners : onStateChange(listener))
       /\ UNCHANGED <<vvars, pvars, cvars, avars, hvars, wvars>>
  \/ (\E listener \in Listeners : unsubscribe(listener))
       /\ UNCHANGED <<vvars, pvars, cvars, avars, hvars, wvars>>

\* With listeners the machine is followed for K of 1 and 2.
InitRunStateEvents == InitRunState /\ smConfig.consecutiveReadingsRequired <= 2

SpecRunStateEvents == InitRunStateEvents /\ [][ENext]_vars

CNext ==
  \/ (\E sample \in LocationSamples : addSample(sample))
       /\ UNCHANGED <<vvars, pvars, rvars, avars, hvars, wvars>>
  \/ reset /\ UNCHANGED <<vvars, pvars, rvars, avars, hvars, wvars>>

InitPace == CInit /\ AInit /\ VIdle /\ PIdle /\ RIdle /\ HInit /\ WIdle

SpecPace == InitPace /\ [][CNext]_vars

ANext ==
  \/ AppStartRun /\ UNCHANGED <<vvars, pvars, rvars, hvars, wvars>>
  \/ AppEndRun /\ UNCHANGED <<vvars, pvars, rvars, hvars, wvars>>
  \/ (\E location \in LocationSamples : handleLocationUpdate(location))
       /\ UNCHANGED <<vvars, pvars, rvars, hvars, wvars>>

SpecApp == InitPace /\ [][ANext]_vars

HNext ==
  \/ (\E deviceId \in Devices : \E reported \in RunStates : Heartbeat(deviceId, reported))
       /\ UNCHANGED <<vvars, pvars, rvars, cvars, avars, wvars>>
  \/ (\E userId \in Accounts : DisconnectGithub(userId))
       /\ UNCHANGED <<vvars, pvars, rvars, cvars, avars, wvars>>
  \/ (\E deviceId \in Devices : StartSession(deviceId))
       /\ UNCHANGED <<vvars, pvars, rvars, cvars, avars, wvars>>
  \/ (\E deviceId \in Devices : EndSession(deviceId))
       /\ UNCHANGED <<vvars, pvars, rvars, cvars, avars, wvars>>
  \/ checkStaleHeartbeats /\ UNCHANGED <<vvars, pvars, rvars, cvars, avars, wvars>>
  \/ BlockUserWritesReturns /\ UNCHANGED <<vvars, pvars, rvars, cvars, avars, wvars>>
  \/ HTick /\ UNCHANGED <<vvars, pvars, rvars, cvars, avars, wvars>>

InitServer == HInit /\ VIdle /\ PIdle /\ RIdle /\ CIdle /\ AInit /\ WIdle

SpecServer == InitServer /\ [][HNext]_vars

WNext ==
  \/ (\E h \in Handlers : workoutStart(h))
       /\ UNCHANGED <<vvars, pvars, rvars, cvars, avars, hvars>>
  \/ (\E h \in Handlers : workoutStop(h))
       /\ UNCHANGED <<vvars, pvars, rvars, cvars, avars, hvars>>
  \/ (\E h \in Handlers : workoutHr(h))
       /\ UNCHANGED <<vvars, pvars, rvars, cvars, avars, hvars>>
  \/ WTick /\ UNCHANGED <<vvars, pvars, rvars, cvars, avars, hvars>>

InitWorkout == WInit /\ VIdle /\ PIdle /\ RIdle /\ CIdle /\ AInit /\ HInit

SpecWorkout == InitWorkout /\ [][WNext]_vars

====
